---- MODULE Spec2Model ----
(***************************************************************************)
(* Model of the mock-interview platform: the Interview Agent               *)
(* (ai_modules/agent), its session registry (AgentState) and the backend   *)
(* endpoints that drive it (backend/api/interview.py, evaluation.py).      *)
(*                                                                         *)
(* Scores are integers; final (rounded to 2 decimals) scores are kept in   *)
(* hundredths.  Every request handler runs to completion before the next   *)
(* one starts (the endpoints are coroutines without suspension points in   *)
(* the paths modelled here); start and complete are split into the steps   *)
(* at which they assign current_phase, and pc holds the handler's position.*)
(* The deployment modelled is the one with the agent loaded                *)
(* (AGENT_AVAILABLE and interview_agent is not None).                      *)
(*                                                                         *)
(* The proctoring part models the AntiCheatMonitor (ai_modules/proctoring) *)
(* and its endpoints (backend/api/proctoring.py) with MediaPipe and        *)
(* DeepFace installed.  The server is one process with one event loop and  *)
(* no worker threads: requests may be in flight together, and each is      *)
(* handled from lookup to return without another one running in between.   *)
(***************************************************************************)
EXTENDS Integers, Sequences, FiniteSets, TLC

\* ---------------------------------------------------------------- bounds
MaxUsers == 2
MaxInterviews == 2
NumQuestions == 1
MaxSubmits == 2
MaxResponses == 2
BackendQuestions == 1
BackendInterviews == 1
AdjQuestions == 3
AdjSubmits == 3
AdjInterviews == 1
AgentInterviews == 1
RegistryInterviews == 2

Users == 1..MaxUsers
InterviewIds == 1..MaxInterviews
Difficulties == {"easy", "medium", "hard"}
\* InterviewCreate.difficulty_level: Optional[str] = "medium"
DefaultDifficulty == "medium"

\* Evaluation results the answer evaluator can return: <<content, relevance>>.
EvalInputs == {<<40, 30>>, <<90, 80>>}
\* What the evaluator returns for the transcription of a recording.
MediaEvalInputs == {<<90, 80>>}
\* Content scores around the difficulty-adjustment thresholds: three answers
\* average exactly 45 (25, 55, 55) or exactly 85 (55, 100, 100), less or more.
AdjustEvalInputs == {<<25, 50>>, <<55, 50>>, <<100, 50>>}

\* ------------------------------------------------------- agent_state.py
\* AgentPhase, in declaration order.
PhaseRank(p) ==
  CASE p = "initialization" -> 0
    [] p = "question_generation" -> 1
    [] p = "answer_collection" -> 2
    [] p = "evaluation" -> 3
    [] p = "analysis" -> 4
    [] p = "suggestion_generation" -> 5
    [] p = "report_generation" -> 6
    [] p = "completed" -> 7
    [] OTHER -> -1

\* evaluation_result: Optional[Dict] = None
NoEval == [content_score |-> -1, relevance_score |-> -1]

\* QuestionContext(question_id=idx, order_number=idx + 1)
QuestionContext(idx) ==
  [question_id |-> idx, order_number |-> idx + 1,
   answer_received |-> FALSE, evaluation_result |-> NoEval]

\* What get_context returns when no context matches (None).
NoContext ==
  [interview_id |-> 0, user_id |-> 0, difficulty_level |-> "none",
   current_phase |-> "none", questions |-> <<>>, current_question_index |-> 0,
   cumulative_content_scores |-> <<>>, cumulative_relevance_scores |-> <<>>,
   cumulative_clarity_scores |-> <<>>, cumulative_fluency_scores |-> <<>>,
   cumulative_confidence_scores |-> <<>>,
   agent_observations |-> <<>>, agent_decisions |-> <<>>]

\* InterviewContext(...) with the dataclass defaults.
InterviewContext(interview_id, user_id, difficulty_level) ==
  [NoContext EXCEPT !.interview_id = interview_id, !.user_id = user_id,
                    !.difficulty_level = difficulty_level,
                    !.current_phase = "initialization"]

\* InterviewContext.record_observation: the record keeps the phase the
\* session is in.
record_observation(ctx, observation) ==
  [ctx EXCEPT !.agent_observations =
     Append(@, [phase |-> ctx.current_phase, observation |-> observation])]

\* InterviewContext.record_decision
record_decision(ctx, decision) ==
  [ctx EXCEPT !.agent_decisions =
     Append(@, [phase |-> ctx.current_phase, decision |-> decision])]

VARIABLES
  active_interviews,  \* AgentState.active_interviews: user_id -> context
  enable_adaptive_difficulty, \* AgentState.enable_adaptive_difficulty
  db_interviews,      \* Interview rows, by id (user_id = 0: no such row)
  db_responses,       \* Response rows of each interview, in insertion order
  next_id,            \* the next Interview primary key
  pc,                 \* the running handler and its position
  ret,                \* what the last finished call returned
  proctor_monitor,    \* api/proctoring.py's global AntiCheatMonitor
  sessions,           \* AntiCheatMonitor.sessions: session_id -> session
  away_run,           \* per session, the frames in a row whose result said
                      \* looking_at_screen = False, ending at the last frame
  away_total,         \* per session, all the frames so far whose result
                      \* said looking_at_screen = False
  in_flight,          \* requests received and not yet answered
  proctor_ret,        \* what the last finished proctoring call returned
  evaluation,         \* the last evaluate_answer call: its answer and result
  generated,          \* the last question-list call: its arguments and result
  question_bank       \* QuestionGenerator.question_bank: type -> level -> entries

agentVars == <<active_interviews, enable_adaptive_difficulty, db_interviews,
               db_responses, next_id, pc, ret>>

proctorVars == <<proctor_monitor, sessions, away_run, away_total, in_flight,
                proctor_ret>>

toolVars == <<evaluation, generated, question_bank>>

vars == <<active_interviews, enable_adaptive_difficulty, db_interviews,
          db_responses, next_id, pc, ret, proctor_monitor, sessions, away_run,
          away_total,
          in_flight, proctor_ret, evaluation, generated,
          question_bank>>

SeqSum(s) == LET RECURSIVE S(_)
                 S(i) == IF i = 0 THEN 0 ELSE s[i] + S(i - 1)
             IN S(Len(s))

\* AgentState.get_context: the first registered context with this interview_id.
\* Interview ids are primary keys, so at most one context matches.
get_context(interview_id) ==
  IF \E u \in DOMAIN active_interviews :
        active_interviews[u].interview_id = interview_id
  THEN active_interviews[CHOOSE u \in DOMAIN active_interviews :
        active_interviews[u].interview_id = interview_id]
  ELSE NoContext

\* AgentState.create_context: self.active_interviews[user_id] = context
create_context(reg, interview_id, user_id, difficulty_level) ==
  [u \in (DOMAIN reg) \cup {user_id} |->
     IF u = user_id THEN InterviewContext(interview_id, user_id, difficulty_level)
     ELSE reg[u]]

\* A variant of remove_context that clears the whole registry, every other
\* user's session included (C31 must reject it).
remove_context_all(reg, user_id) ==
  [u \in {} |-> NoContext]

\* A variant of remove_context that leaves the registry as it is (C8 must
\* reject it).
remove_context_keep(reg, user_id) == reg

\* AgentState.remove_context
remove_context(reg, user_id) ==
  [u \in (DOMAIN reg) \ {user_id} |-> reg[u]]

\* The registry with the context of interview_id replaced by ctx (the
\* handlers mutate the context object the registry refers to).
StoreContext(reg, ctx) ==
  [u \in DOMAIN reg |->
     IF reg[u].interview_id = ctx.interview_id THEN ctx ELSE reg[u]]

\* len([q for q in context.questions if q.answer_received])
AnsweredCount(ctx) ==
  Cardinality({i \in 1..Len(ctx.questions) : ctx.questions[i].answer_received})

\* ------------------------------------------------------ interview_agent.py
\* The loop of process_answer that finds the question: the first question, in
\* list order, whose order_number or question_id equals the argument (0: none).
FindQuestion(ctx, question_id) ==
  LET hits == {i \in 1..Len(ctx.questions) :
                 \/ ctx.questions[i].order_number = question_id
                 \/ ctx.questions[i].question_id = question_id}
  IN IF hits = {} THEN 0
     ELSE CHOOSE i \in hits : \A j \in hits : i <= j

\* process_answer, lines 217-243: what a successful evaluation does to the
\* context.  i is the index of the question found, ev = <<content, relevance>>.
RecordAnswer(ctx, i, ev) ==
  [record_observation(ctx, "Answer received") EXCEPT
     !.questions[i].answer_received = TRUE,
     !.questions[i].evaluation_result =
        [content_score |-> ev[1], relevance_score |-> ev[2]],
     !.cumulative_content_scores = Append(@, ev[1]),
     !.cumulative_relevance_scores = Append(@, ev[2]),
     !.current_question_index = @ + 1]

\* Python's round(x, 2) of the exact quotient num/den, in hundredths, where
\* num/den is the value already multiplied by 100: round half to even.
RoundDiv(num, den) ==
  LET q == num \div den
      r == num % den
  IN IF 2 * r < den THEN q
     ELSE IF 2 * r > den THEN q + 1
     ELSE IF q % 2 = 0 THEN q ELSE q + 1

\* A variant of the channel average without the default: a channel with no
\* scores counts as 0 (C23 must reject it).
AverageOrZero(scores) ==
  IF Len(scores) = 0 THEN 0
  ELSE RoundDiv(100 * SeqSum(scores), Len(scores))

\* InterviewContext.get_average_score(t) or 70, in hundredths: no handler
\* appends to the clarity, fluency and confidence lists, so their average is
\* 0.0 and the default applies.
AverageOrDefault(scores) ==
  IF Len(scores) = 0 \/ SeqSum(scores) = 0 THEN 7000
  ELSE RoundDiv(100 * SeqSum(scores), Len(scores))

\* The evaluations complete_interview collects (lines 281-290).
CollectEvaluations(ctx) ==
  LET RECURSIVE C(_)
      C(i) == IF i = 0 THEN <<>>
              ELSE IF ctx.questions[i].answer_received
                      /\ ctx.questions[i].evaluation_result # NoEval
                   THEN Append(C(i - 1), ctx.questions[i].evaluation_result)
                   ELSE C(i - 1)
  IN C(Len(ctx.questions))

EvalContentSum(evaluations) ==
  LET RECURSIVE S(_)
      S(i) == IF i = 0 THEN 0 ELSE evaluations[i].content_score + S(i - 1)
  IN S(Len(evaluations))

EvalRelevanceSum(evaluations) ==
  LET RECURSIVE S(_)
      S(i) == IF i = 0 THEN 0 ELSE evaluations[i].relevance_score + S(i - 1)
  IN S(Len(evaluations))

\* _calculate_final_scores, in hundredths.  With n evaluations,
\* content = 0.6*avg_content + 0.4*avg_relevance and
\* overall = 0.4*content + 0.3*(clarity+fluency)/2 + 0.3*confidence.
calculate_final_scores(ctx, evaluations) ==
  LET n == Len(evaluations)
      sc == EvalContentSum(evaluations)
      sr == EvalRelevanceSum(evaluations)
      cl == AverageOrDefault(ctx.cumulative_clarity_scores)
      fl == AverageOrDefault(ctx.cumulative_fluency_scores)
      cf == AverageOrDefault(ctx.cumulative_confidence_scores)
  IN IF n = 0
     THEN [overall_score |-> 0, content_score |-> 0, questions_answered |-> 0]
     ELSE [overall_score |->
             RoundDiv(20 * (24 * sc + 16 * sr) + n * (3 * cl + 3 * fl + 6 * cf),
                      20 * n),
           content_score |-> RoundDiv(60 * sc + 40 * sr, n),
           questions_answered |-> n]

\* A variant of should_adjust_difficulty whose upper threshold is strict (C10
\* must reject it).
should_adjust_difficulty_strict(interview_id) ==
  LET context == get_context(interview_id)
      scores == context.cumulative_content_scores
      current_diff == context.difficulty_level
  IN IF ~enable_adaptive_difficulty THEN <<FALSE, "">>
     ELSE IF context = NoContext THEN <<FALSE, "">>
     ELSE IF AnsweredCount(context) < 3 THEN <<FALSE, "">>
     ELSE IF SeqSum(scores) > 85 * Len(scores) /\ current_diff # "hard"
          THEN <<TRUE, "hard">>
     ELSE IF SeqSum(scores) <= 45 * Len(scores) /\ current_diff # "easy"
          THEN <<TRUE, "easy">>
     ELSE <<FALSE, "">>

\* should_adjust_difficulty: <<should_adjust, new_difficulty>>.
should_adjust_difficulty(interview_id) ==
  LET context == get_context(interview_id)
      answered == AnsweredCount(context)
      scores == context.cumulative_content_scores
      current_diff == context.difficulty_level
  IN IF ~enable_adaptive_difficulty THEN <<FALSE, "">>
     ELSE IF context = NoContext THEN <<FALSE, "">>
     ELSE IF answered < 3 THEN <<FALSE, "">>
     ELSE IF SeqSum(scores) >= 85 * Len(scores) /\ current_diff # "hard"
          THEN <<TRUE, "hard">>
     ELSE IF SeqSum(scores) <= 45 * Len(scores) /\ current_diff # "easy"
          THEN <<TRUE, "easy">>
     ELSE <<FALSE, "">>

\* ------------------------------------------------------------ return values
\* What a call returned: the operation, the interview it named, its outcome
\* (an HTTP status or an exception), and the payload fields the properties
\* read (-1: absent).
Ret(op, iid, code) ==
  [op |-> op, iid |-> iid, code |-> code, questions_answered |-> -1,
   overall_score |-> -1, content_score |-> -1, adjust |-> "", phase |-> "",
   via |-> ""]

NoRow ==
  [user_id |-> 0, status |-> "none", total_questions |-> 0,
   answered_questions |-> 0, overall_score |-> -1, content_score |-> -1]

NoPc == [op |-> "idle", iid |-> 0, user |-> 0, step |-> "", evaluations |-> <<>>,
         scores |-> [overall_score |-> 0, content_score |-> 0,
                     questions_answered |-> 0]]

\* proctor_monitor = None: get_monitor() has not been called yet.
NoMonitor ==
  [created |-> FALSE, no_face_frames_threshold |-> 0,
   looking_away_frames_threshold |-> 0]

NoReport ==
  [session_id |-> "", user_id |-> 0, interview_id |-> 0,
   duration_frames |-> 0, face_visibility_ratio |-> 0, attention_ratio |-> 0,
   integrity_score |-> 0, total_violations |-> 0, critical_violations |-> 0,
   violations |-> <<>>, recommendation |-> ""]

NoProctorRet ==
  [op |-> "", session_id |-> "", code |-> "", frame_number |-> 0,
   violations |-> <<>>, report |-> NoReport]

\* No evaluate_answer call yet.
NoEvaluation ==
  [answer |-> [word_count |-> -1, word_length |-> 0, sentence_count |-> 0,
               example |-> FALSE, overlap |-> <<0, 0>>, expected |-> <<0, 0>>,
               transitions |-> 0, even |-> FALSE],
   result |-> [content_score |-> -1, relevance_score |-> -1,
               coherence_score |-> -1, word_count |-> -1, feedback |-> {}]]

\* No question list asked for yet.
NoGenerated ==
  [op |-> "", interview_type |-> "", difficulty |-> "", skills |-> <<>>,
   questions |-> <<>>, focus_areas |-> <<>>, avoid_topics |-> <<>>,
   strong_areas |-> <<>>, result |-> <<>>]

\* An entry of the question bank: its text (numbered), its type, its
\* "difficulty" tag ("" when the entry has none) and what the indicator
\* vocabularies of _classify_difficulty find in its text ("" when they find
\* no clear indicator).  The keywords of an entry are never assigned.
BankEntry(text, type, indicator) ==
  [text |-> text, type |-> type, difficulty |-> "", indicator |-> indicator]

\* An entry of the technical bank: these carry a difficulty tag.
TechnicalEntry(text, difficulty, indicator) ==
  [BankEntry(text, "technical", indicator) EXCEPT !.difficulty = difficulty]

\* _initialize_question_bank: the general, hr and technical banks, entry by
\* entry (no entry of the first two has a difficulty tag; the lists of the
\* programming languages are kept beside those of the other categories).
initialize_question_bank ==
  [general |->
     [easy |-> <<BankEntry(1, "behavioral", "easy"),
                 BankEntry(2, "behavioral", "easy"),
                 BankEntry(3, "behavioral", ""),
                 BankEntry(4, "behavioral", ""),
                 BankEntry(5, "behavioral", "")>>,
      medium |-> <<BankEntry(6, "situational", "easy"),
                   BankEntry(7, "behavioral", ""),
                   BankEntry(8, "situational", "easy"),
                   BankEntry(9, "behavioral", "easy"),
                   BankEntry(10, "situational", "easy")>>,
      hard |-> <<BankEntry(11, "situational", "easy"),
                 BankEntry(12, "behavioral", ""),
                 BankEntry(13, "situational", "easy")>>],
   hr |->
     [easy |-> <<BankEntry(21, "hr", ""), BankEntry(22, "hr", "easy"),
                 BankEntry(23, "hr", ""), BankEntry(24, "hr", "easy")>>,
      medium |-> <<BankEntry(25, "hr", ""), BankEntry(26, "hr", ""),
                   BankEntry(27, "hr", "easy"), BankEntry(28, "hr", "easy"),
                   BankEntry(29, "hr", "")>>,
      hard |-> <<BankEntry(30, "hr", "easy"), BankEntry(31, "hr", "medium"),
                 BankEntry(32, "hr", "medium")>>],
   technical |->
     [python |-> <<TechnicalEntry(41, "easy", "medium"),
                   TechnicalEntry(42, "medium", "easy"),
                   TechnicalEntry(43, "hard", "medium"),
                   TechnicalEntry(44, "medium", "")>>,
      java |-> <<TechnicalEntry(45, "easy", "easy"),
                 TechnicalEntry(46, "medium", "medium"),
                 TechnicalEntry(47, "hard", "easy")>>,
      javascript |-> <<TechnicalEntry(48, "medium", "medium"),
                       TechnicalEntry(49, "easy", "easy"),
                       TechnicalEntry(50, "hard", "medium")>>,
      algorithms |-> <<TechnicalEntry(51, "easy", "medium"),
                       TechnicalEntry(52, "medium", "medium"),
                       TechnicalEntry(53, "medium", "medium"),
                       TechnicalEntry(54, "hard", "easy")>>,
      databases |-> <<TechnicalEntry(55, "easy", "easy"),
                      TechnicalEntry(56, "medium", "medium"),
                      TechnicalEntry(57, "medium", "easy"),
                      TechnicalEntry(58, "medium", "medium")>>,
      system_design |-> <<TechnicalEntry(59, "hard", "medium"),
                          TechnicalEntry(60, "medium", "medium"),
                          TechnicalEntry(61, "medium", "easy")>>]]

ToolsIdle ==
  /\ evaluation = NoEvaluation
  /\ generated = NoGenerated
  /\ question_bank = initialize_question_bank

ProctorIdle ==
  /\ proctor_monitor = NoMonitor
  /\ sessions = <<>>
  /\ away_run = <<>>
  /\ away_total = <<>>
  /\ in_flight = {}
  /\ proctor_ret = NoProctorRet

AgentIdle ==
  /\ active_interviews = <<>>
  /\ enable_adaptive_difficulty = TRUE
  /\ db_interviews = [i \in InterviewIds |-> NoRow]
  /\ db_responses = [i \in InterviewIds |-> <<>>]
  /\ next_id = 1
  /\ pc = NoPc
  /\ ret = Ret("none", 0, "")

Init ==
  /\ ProctorIdle
  /\ AgentIdle
  /\ ToolsIdle

\* ------------------------------------------- create_interview / start_interview
\* POST /create up to create_context and the first observation: the Interview
\* row is committed as in_progress, the context is registered under user_id.
CreateInterview(user, difficulty) ==
  /\ pc.op = "idle"
  /\ next_id <= MaxInterviews
  /\ db_interviews' = [db_interviews EXCEPT ![next_id] =
        [NoRow EXCEPT !.user_id = user, !.status = "in_progress"]]
  /\ active_interviews' =
       StoreContext(create_context(active_interviews, next_id, user, difficulty),
                    record_observation(
                      InterviewContext(next_id, user, difficulty),
                      "Interview session initialized"))
  /\ next_id' = next_id + 1
  /\ pc' = [NoPc EXCEPT !.op = "start", !.iid = next_id, !.user = user,
                        !.step = "created"]
  /\ UNCHANGED <<enable_adaptive_difficulty, db_responses, ret>>
  /\ UNCHANGED <<proctorVars, toolVars>>

\* start_interview line 120: context.current_phase = QUESTION_GENERATION
PhaseQuestionGeneration(ctx) ==
  [ctx EXCEPT !.current_phase = "question_generation"]

StartQuestionGeneration ==
  /\ pc.op = "start" /\ pc.step = "created"
  /\ active_interviews' = StoreContext(active_interviews,
        PhaseQuestionGeneration(get_context(pc.iid)))
  /\ pc' = [pc EXCEPT !.step = "generating"]
  /\ UNCHANGED <<enable_adaptive_difficulty, db_interviews, db_responses,
                 next_id, ret>>
  /\ UNCHANGED <<proctorVars, toolVars>>

\* start_interview lines 129-154: the questions are stored, the decision is
\* recorded and the phase becomes ANSWER_COLLECTION.
StoreQuestions(ctx, n) ==
  [record_decision(ctx, "Generated question set") EXCEPT
     !.questions = [i \in 1..n |-> QuestionContext(i - 1)],
     !.current_phase = "answer_collection"]

\* The rest of the handler.  n: the number of questions generated;
\* genOk: generate_questions returned success;
\* otherwise start_interview raises with the context left registered, and
\* create_interview falls back to the question generator (fallbackOk: it
\* returned questions; otherwise the request fails after the row's commit).
StartFinish(n, genOk, fallbackOk) ==
  /\ pc.op = "start" /\ pc.step = "generating"
  /\ active_interviews' =
       IF genOk THEN StoreContext(active_interviews, StoreQuestions(get_context(pc.iid), n))
       ELSE active_interviews
  /\ db_interviews' =
       IF genOk \/ fallbackOk
       THEN [db_interviews EXCEPT ![pc.iid].total_questions = n]
       ELSE db_interviews
  /\ ret' = Ret("create", pc.iid, IF genOk \/ fallbackOk THEN "201" ELSE "500")
  /\ pc' = NoPc
  /\ UNCHANGED <<enable_adaptive_difficulty, db_responses, next_id>>
  /\ UNCHANGED <<proctorVars, toolVars>>

\* ------------------------------------------------- InterviewAgent, direct calls
\* The answers recorded in the registered sessions (bounds the model).
TotalSubmits ==
  LET RECURSIVE T(_)
      T(U) == IF U = {} THEN 0
              ELSE LET u == CHOOSE x \in U : TRUE
                   IN Len(active_interviews[u].cumulative_content_scores)
                        + T(U \ {u})
  IN T(DOMAIN active_interviews)

\* process_answer.  ev is what the answer evaluator returns for the answer
\* text; evalOk is FALSE when the evaluator raises (ToolResult.success False).
process_answer(interview_id, question_id, ev, evalOk) ==
  /\ pc.op = "idle"
  /\ LET context == get_context(interview_id)
         i == FindQuestion(context, question_id)
     IN IF context = NoContext
        THEN /\ ret' = Ret("process_answer", interview_id, "ValueError:interview")
             /\ UNCHANGED active_interviews
        ELSE IF i = 0
        THEN /\ ret' = Ret("process_answer", interview_id, "ValueError:question")
             /\ UNCHANGED active_interviews
        ELSE IF ~evalOk
        THEN /\ ret' = Ret("process_answer", interview_id, "error")
             /\ UNCHANGED active_interviews
        ELSE /\ active_interviews' =
                  StoreContext(active_interviews, RecordAnswer(context, i, ev))
             /\ ret' = [Ret("process_answer", interview_id, "ok") EXCEPT
                  !.questions_answered = AnsweredCount(RecordAnswer(context, i, ev))]
  /\ UNCHANGED <<enable_adaptive_difficulty, db_interviews, db_responses,
                 next_id, pc>>

\* A process_answer call on its own: nothing else is touched.
ProcessAnswer(interview_id, question_id, ev, evalOk) ==
  /\ process_answer(interview_id, question_id, ev, evalOk)
  /\ UNCHANGED <<proctorVars, toolVars>>

\* A caller asks for process_answer: a request in flight, not yet run.
ReceiveAnswer(request_id, interview_id, question_id, ev) ==
  /\ \A r \in in_flight : r.request_id # request_id
  /\ in_flight' = in_flight \cup
       {[request_id |-> request_id, interview_id |-> interview_id,
         question_id |-> question_id, ev |-> ev, code |-> ""]}
  /\ UNCHANGED <<proctor_monitor, sessions, away_run, away_total, proctor_ret>>
  /\ UNCHANGED <<agentVars, toolVars>>

\* The event loop runs one requested process_answer.  The method is
\* synchronous and takes no lock: it runs from get_context to its return
\* without another call in between.  The outcome is kept with the request
\* until it is returned.
ServeAnswer(request) ==
  /\ request \in in_flight
  /\ request.code = ""
  /\ process_answer(request.interview_id, request.question_id, request.ev, TRUE)
  /\ in_flight' = (in_flight \ {request}) \cup
       {[request EXCEPT !.code = ret'.code]}
  /\ UNCHANGED <<proctor_monitor, sessions, away_run, away_total, proctor_ret>>
  /\ UNCHANGED toolVars

\* The outcome of a served process_answer request is returned to its caller.
ReturnAnswer(request) ==
  /\ request \in in_flight
  /\ request.code # ""
  /\ in_flight' = in_flight \ {request}
  /\ UNCHANGED <<proctor_monitor, sessions, away_run, away_total, proctor_ret>>
  /\ UNCHANGED <<agentVars, toolVars>>

ShouldAdjust(interview_id) ==
  /\ pc.op = "idle"
  /\ ret' = [Ret("should_adjust", interview_id,
                 IF should_adjust_difficulty(interview_id)[1] THEN "true" ELSE "false")
             EXCEPT !.adjust = should_adjust_difficulty(interview_id)[2]]
  /\ UNCHANGED <<active_interviews, enable_adaptive_difficulty, db_interviews,
                 db_responses, next_id, pc>>
  /\ UNCHANGED <<proctorVars, toolVars>>

\* get_interview_status: None without a context, else the status record.
GetStatus(interview_id) ==
  /\ pc.op = "idle"
  /\ LET context == get_context(interview_id)
     IN ret' = IF context = NoContext
               THEN Ret("status", interview_id, "None")
               ELSE [Ret("status", interview_id, "found") EXCEPT
                       !.phase = context.current_phase,
                       !.questions_answered = AnsweredCount(context)]
  /\ UNCHANGED <<active_interviews, enable_adaptive_difficulty, db_interviews,
                 db_responses, next_id, pc>>
  /\ UNCHANGED <<proctorVars, toolVars>>

\* ------------------------------------------------------------ evaluation.py
\* A Response row; clarity, fluency and confidence are -1 when not set (NULL).
Response(question, ev, clarity, fluency, confidence) ==
  [question |-> question, content_score |-> ev[1], relevance_score |-> ev[2],
   clarity_score |-> clarity, fluency_score |-> fluency,
   confidence_score |-> confidence]

\* What the speech analyzer returns, <<clarity, fluency>>, and the emotion
\* analyzer's confidence score.
SpeechInputs == {<<60, 70>>}
ConfidenceInputs == {50}

\* The lookups every submit handler starts with: the Question row, then the
\* Interview row of the current user ("" when both are found).
SubmitLookup(user, iid, question) ==
  IF ~(iid \in InterviewIds /\ question \in 1..db_interviews[iid].total_questions)
  THEN "404:question"
  ELSE IF db_interviews[iid].user_id # user THEN "404:interview"
  ELSE ""

\* The Response rows in the database (bounds the model).
TotalResponses ==
  LET RECURSIVE T(_)
      T(i) == IF i = 0 THEN 0 ELSE Len(db_responses[i]) + T(i - 1)
  IN T(MaxInterviews)

\* db.add(new_response); interview.answered_questions += 1; db.commit()
CommitResponse(iid, row) ==
  /\ TotalResponses < MaxResponses
  /\ db_responses' = [db_responses EXCEPT ![iid] = Append(@, row)]
  /\ db_interviews' = [db_interviews EXCEPT ![iid].answered_questions = @ + 1]

\* The status check of submit_text_response (lines 183-187).
TextStatusCheck(iid) ==
  IF db_interviews[iid].status # "in_progress" THEN "400:not_in_progress" ELSE ""

submit_text_response(user, iid, question, ev, evalOk) ==
  /\ pc.op = "idle"
  /\ LET err == IF SubmitLookup(user, iid, question) # ""
                THEN SubmitLookup(user, iid, question)
                ELSE IF TextStatusCheck(iid) # "" THEN TextStatusCheck(iid)
                ELSE IF ~evalOk THEN "500"
                ELSE ""
     IN IF err # ""
        THEN /\ ret' = Ret("submit_text", iid, err)
             /\ UNCHANGED <<db_interviews, db_responses>>
        ELSE /\ CommitResponse(iid, Response(question, ev, -1, -1, -1))
             /\ ret' = Ret("submit_text", iid, "201")
  /\ UNCHANGED <<active_interviews, enable_adaptive_difficulty, next_id, pc>>

SubmitText(user, iid, question, ev, evalOk) ==
  /\ submit_text_response(user, iid, question, ev, evalOk)
  /\ UNCHANGED <<proctorVars, toolVars>>

\* submit_audio_response: speechOk is FALSE when analyze_audio raises (500).
submit_audio_response(user, iid, question, sp, ev, speechOk, evalOk) ==
  /\ pc.op = "idle"
  /\ LET err == IF SubmitLookup(user, iid, question) # ""
                THEN SubmitLookup(user, iid, question)
                ELSE IF ~speechOk \/ ~evalOk THEN "500"
                ELSE ""
     IN IF err # ""
        THEN /\ ret' = Ret("submit_audio", iid, err)
             /\ UNCHANGED <<db_interviews, db_responses>>
        ELSE /\ CommitResponse(iid, Response(question, ev, sp[1], sp[2], -1))
             /\ ret' = Ret("submit_audio", iid, "200")
  /\ UNCHANGED <<active_interviews, enable_adaptive_difficulty, next_id, pc>>

SubmitAudio(user, iid, question, sp, ev, speechOk, evalOk) ==
  /\ submit_audio_response(user, iid, question, sp, ev, speechOk, evalOk)
  /\ UNCHANGED <<proctorVars, toolVars>>

\* submit_video_response: when analyze_video raises (emotionOk FALSE) the
\* confidence score recorded is 0.
submit_video_response(user, iid, question, sp, cf, ev, speechOk, emotionOk, evalOk) ==
  /\ pc.op = "idle"
  /\ LET err == IF SubmitLookup(user, iid, question) # ""
                THEN SubmitLookup(user, iid, question)
                ELSE IF ~speechOk \/ ~evalOk THEN "500"
                ELSE ""
     IN IF err # ""
        THEN /\ ret' = Ret("submit_video", iid, err)
             /\ UNCHANGED <<db_interviews, db_responses>>
        ELSE /\ CommitResponse(iid, Response(question, ev, sp[1], sp[2],
                                             IF emotionOk THEN cf ELSE 0))
             /\ ret' = Ret("submit_video", iid, "200")
  /\ UNCHANGED <<active_interviews, enable_adaptive_difficulty, next_id, pc>>

SubmitVideo(user, iid, question, sp, cf, ev, speechOk, emotionOk, evalOk) ==
  /\ submit_video_response(user, iid, question, sp, cf, ev, speechOk, emotionOk, evalOk)
  /\ UNCHANGED <<proctorVars, toolVars>>

\* A submit request arrives: a request in flight, not yet handled, with the
\* status the interview has at that moment.
ReceiveSubmit(request_id, kind, user, iid, question) ==
  /\ \A r \in in_flight : r.request_id # request_id
  /\ in_flight' = in_flight \cup
       {[request_id |-> request_id, kind |-> kind, user |-> user,
         interview_id |-> iid, question_id |-> question,
         seen |-> db_interviews[iid].status, code |-> ""]}
  /\ UNCHANGED <<proctor_monitor, sessions, away_run, away_total, proctor_ret>>
  /\ UNCHANGED <<agentVars, toolVars>>

\* The event loop runs one received submit.  The three handlers are
\* coroutines without an await between their lookups and db.commit(), so no
\* other handler runs in between; the analyzers and the evaluator succeed.
ServeSubmit(request) ==
  /\ request \in in_flight
  /\ request.code = ""
  /\ CASE request.kind = "text" ->
            submit_text_response(request.user, request.interview_id,
                                 request.question_id, <<90, 80>>, TRUE)
       [] request.kind = "audio" ->
            submit_audio_response(request.user, request.interview_id,
                                  request.question_id, <<60, 70>>, <<90, 80>>,
                                  TRUE, TRUE)
       [] request.kind = "video" ->
            submit_video_response(request.user, request.interview_id,
                                  request.question_id, <<60, 70>>, 50,
                                  <<90, 80>>, TRUE, TRUE, TRUE)
  /\ in_flight' = (in_flight \ {request}) \cup
       {[request EXCEPT !.code = ret'.code]}
  /\ UNCHANGED <<proctor_monitor, sessions, away_run, away_total, proctor_ret>>
  /\ UNCHANGED toolVars

\* The response of a served submit is sent.
SendSubmitResponse(request) ==
  /\ request \in in_flight
  /\ request.code # ""
  /\ in_flight' = in_flight \ {request}
  /\ UNCHANGED <<proctor_monitor, sessions, away_run, away_total, proctor_ret>>
  /\ UNCHANGED <<agentVars, toolVars>>

\* ------------------------------------------------------- report_generator.py
\* The rows' values of one column that are not NULL.
Column(rows, f) ==
  LET RECURSIVE C(_)
      C(i) == IF i = 0 THEN <<>>
              ELSE IF rows[i][f] # -1 THEN Append(C(i - 1), rows[i][f])
              ELSE C(i - 1)
  IN C(Len(rows))

\* ReportGenerator.generate_final_report: the scores, in hundredths.  Without
\* responses the empty report; else _calculate_all_scores, where a column
\* without values averages to 0.
generate_final_report(rows) ==
  LET n == Len(rows)
      sc == SeqSum(Column(rows, "content_score"))
      sr == SeqSum(Column(rows, "relevance_score"))
      cl == Column(rows, "clarity_score")
      fl == Column(rows, "fluency_score")
      cf == Column(rows, "confidence_score")
      ns == IF Len(cl) = 0 THEN 1 ELSE Len(cl)
      nc == IF Len(cf) = 0 THEN 1 ELSE Len(cf)
  IN IF n = 0
     THEN [overall_score |-> 0, content_score |-> 0, questions_answered |-> -1]
     ELSE [overall_score |->
             RoundDiv((24 * sc + 16 * sr) * ns * nc
                        + 15 * (SeqSum(cl) + SeqSum(fl)) * n * nc
                        + 30 * SeqSum(cf) * n * ns,
                      n * ns * nc),
           content_score |-> RoundDiv(60 * sc + 40 * sr, n),
           questions_answered |-> -1]

\* --------------------------------------------- interview.py complete_interview
\* complete_interview (agent) line 278: context.current_phase = ANALYSIS
PhaseAnalysis(ctx) == [ctx EXCEPT !.current_phase = "analysis"]
\* A variant of line 318 that steps back to answer collection (C2 must reject it).
PhaseSuggestionGenerationBack(ctx) ==
  [ctx EXCEPT !.current_phase = "answer_collection"]
\* line 318
PhaseSuggestionGeneration(ctx) ==
  [ctx EXCEPT !.current_phase = "suggestion_generation"]
\* line 338
PhaseReportGeneration(ctx) == [ctx EXCEPT !.current_phase = "report_generation"]
\* line 356
PhaseCompleted(ctx) == [ctx EXCEPT !.current_phase = "completed"]

\* interview.py lines 486-503: the row after the report is stored.
StoreReport(row, report) ==
  [row EXCEPT !.status = "completed", !.overall_score = report.overall_score,
              !.content_score = report.content_score]

\* POST /{id}/complete up to the agent's first phase assignment.  Without a
\* registered context the agent raises ValueError and the handler finishes at
\* once with the ReportGenerator's report.
CompleteBegin(user, iid) ==
  /\ pc.op = "idle"
  /\ LET row == db_interviews[iid]
         context == get_context(iid)
     IN IF row.user_id # user
        THEN /\ ret' = Ret("complete", iid, "404")
             /\ UNCHANGED <<active_interviews, db_interviews, pc>>
        ELSE IF row.status = "completed"
        THEN /\ ret' = Ret("complete", iid, "400")
             /\ UNCHANGED <<active_interviews, db_interviews, pc>>
        ELSE IF context = NoContext
        THEN /\ db_interviews' = [db_interviews EXCEPT ![iid] =
                  StoreReport(row, generate_final_report(db_responses[iid]))]
             /\ ret' = [Ret("complete", iid, "200") EXCEPT
                  !.via = "report_generator",
                  !.overall_score =
                     generate_final_report(db_responses[iid]).overall_score,
                  !.content_score =
                     generate_final_report(db_responses[iid]).content_score]
             /\ UNCHANGED <<active_interviews, pc>>
        ELSE /\ active_interviews' =
                  StoreContext(active_interviews,
                               record_observation(PhaseAnalysis(context),
                                                  "Analyzing weak areas"))
             /\ pc' = [NoPc EXCEPT !.op = "complete", !.iid = iid, !.user = user,
                  !.step = "analysis",
                  !.evaluations = CollectEvaluations(context)]
             /\ UNCHANGED <<db_interviews, ret>>
  /\ UNCHANGED <<enable_adaptive_difficulty, db_responses, next_id>>
  /\ UNCHANGED <<proctorVars, toolVars>>

CompleteSuggestion ==
  /\ pc.op = "complete" /\ pc.step = "analysis"
  /\ active_interviews' = StoreContext(active_interviews,
        PhaseSuggestionGeneration(get_context(pc.iid)))
  /\ pc' = [pc EXCEPT !.step = "suggestion_generation"]
  /\ UNCHANGED <<enable_adaptive_difficulty, db_interviews, db_responses,
                 next_id, ret>>
  /\ UNCHANGED <<proctorVars, toolVars>>

CompleteReportGeneration ==
  /\ pc.op = "complete" /\ pc.step = "suggestion_generation"
  /\ active_interviews' = StoreContext(active_interviews,
        PhaseReportGeneration(get_context(pc.iid)))
  /\ pc' = [pc EXCEPT !.step = "report_generation",
        !.scores = calculate_final_scores(get_context(pc.iid), pc.evaluations)]
  /\ UNCHANGED <<enable_adaptive_difficulty, db_interviews, db_responses,
                 next_id, ret>>
  /\ UNCHANGED <<proctorVars, toolVars>>

CompleteMark ==
  /\ pc.op = "complete" /\ pc.step = "report_generation"
  /\ active_interviews' = StoreContext(active_interviews,
        PhaseCompleted(record_decision(get_context(pc.iid),
                                       "Interview analysis completed")))
  /\ pc' = [pc EXCEPT !.step = "completed"]
  /\ UNCHANGED <<enable_adaptive_difficulty, db_interviews, db_responses,
                 next_id, ret>>
  /\ UNCHANGED <<proctorVars, toolVars>>

\* The agent removes the context and returns the report; the handler stores
\* the report's scores in the Interview row.
CompleteFinish ==
  /\ pc.op = "complete" /\ pc.step = "completed"
  /\ active_interviews' =
        remove_context(active_interviews, get_context(pc.iid).user_id)
  /\ db_interviews' = [db_interviews EXCEPT ![pc.iid] = StoreReport(@, pc.scores)]
  /\ ret' = [Ret("complete", pc.iid, "200") EXCEPT
        !.via = "agent",
        !.phase = get_context(pc.iid).current_phase,
        !.questions_answered = pc.scores.questions_answered,
        !.overall_score = pc.scores.overall_score,
        !.content_score = pc.scores.content_score]
  /\ pc' = NoPc
  /\ UNCHANGED <<enable_adaptive_difficulty, db_responses, next_id>>
  /\ UNCHANGED <<proctorVars, toolVars>>

\* DELETE /{id}: cancel_interview
CancelInterview(user, iid) ==
  /\ pc.op = "idle"
  /\ LET row == db_interviews[iid]
     IN IF row.user_id # user
        THEN /\ ret' = Ret("cancel", iid, "404")
             /\ UNCHANGED db_interviews
        ELSE IF row.status = "completed"
        THEN /\ ret' = Ret("cancel", iid, "400")
             /\ UNCHANGED db_interviews
        ELSE /\ db_interviews' = [db_interviews EXCEPT ![iid].status = "cancelled"]
             /\ ret' = Ret("cancel", iid, "204")
  /\ UNCHANGED <<active_interviews, enable_adaptive_difficulty, db_responses,
                 next_id, pc>>
  /\ UNCHANGED <<proctorVars, toolVars>>

\* ------------------------------------------------------------ specifications
\* The handlers of create_interview and complete_interview, step by step.
StartSteps ==
  \/ StartQuestionGeneration
  \/ \E genOk \in BOOLEAN, fallbackOk \in BOOLEAN :
        StartFinish(NumQuestions, genOk, fallbackOk)

CompleteSteps ==
  \/ CompleteSuggestion
  \/ CompleteReportGeneration
  \/ CompleteMark
  \/ CompleteFinish

\* The agent driven through its own interface: a session is started and
\* completed by the endpoints, answers are processed by process_answer.
Next ==
  \/ \E u \in Users :
        next_id <= AgentInterviews /\ CreateInterview(u, DefaultDifficulty)
  \/ StartSteps
  \/ \E i \in InterviewIds, q \in 0..(NumQuestions + 1), ev \in EvalInputs,
        evalOk \in BOOLEAN :
        TotalSubmits < MaxSubmits /\ ProcessAnswer(i, q, ev, evalOk)
  \/ \E i \in InterviewIds : GetStatus(i)
  \/ \E u \in Users, i \in InterviewIds : CompleteBegin(u, i)
  \/ CompleteSteps

Spec == Init /\ [][Next]_vars

\* The session registry alone: sessions are started, looked up and completed,
\* several of them by the same user.
NextRegistry ==
  \/ \E u \in Users :
        next_id <= RegistryInterviews /\ CreateInterview(u, DefaultDifficulty)
  \/ StartSteps
  \/ \E i \in InterviewIds : GetStatus(i)
  \/ \E u \in Users, i \in InterviewIds : CompleteBegin(u, i)
  \/ CompleteSteps

SpecRegistry == Init /\ [][NextRegistry]_vars

\* The deployed application: the endpoints of interview.py and evaluation.py
\* (no endpoint calls process_answer).
NextBackend ==
  \/ \E u \in Users : next_id <= BackendInterviews /\ CreateInterview(u, DefaultDifficulty)
  \/ StartQuestionGeneration
  \/ \E genOk \in BOOLEAN, fallbackOk \in BOOLEAN :
        StartFinish(BackendQuestions, genOk, fallbackOk)
  \/ \E i \in InterviewIds : GetStatus(i)
  \/ \E u \in Users, i \in InterviewIds, q \in 1..BackendQuestions, ev \in EvalInputs,
        evalOk \in BOOLEAN : SubmitText(u, i, q, ev, evalOk)
  \/ \E u \in Users, i \in InterviewIds, q \in 1..BackendQuestions, sp \in SpeechInputs,
        ev \in MediaEvalInputs, speechOk \in BOOLEAN, evalOk \in BOOLEAN :
        SubmitAudio(u, i, q, sp, ev, speechOk, evalOk)
  \/ \E u \in Users, i \in InterviewIds, q \in 1..BackendQuestions, sp \in SpeechInputs,
        cf \in ConfidenceInputs, ev \in MediaEvalInputs, speechOk \in BOOLEAN,
        emotionOk \in BOOLEAN, evalOk \in BOOLEAN :
        SubmitVideo(u, i, q, sp, cf, ev, speechOk, emotionOk, evalOk)
  \/ \E u \in Users, i \in InterviewIds : CompleteBegin(u, i)
  \/ CompleteSteps
  \/ \E u \in Users, i \in InterviewIds : CancelInterview(u, i)

SpecBackend == Init /\ [][NextBackend]_vars

\* One session whose answers score at and around the adjustment thresholds,
\* with the adaptive-difficulty flag of the configuration either way.
InitAdj ==
  /\ ProctorIdle
  /\ ToolsIdle
  /\ active_interviews = <<>>
  /\ enable_adaptive_difficulty \in BOOLEAN
  /\ db_interviews = [i \in InterviewIds |-> NoRow]
  /\ db_responses = [i \in InterviewIds |-> <<>>]
  /\ next_id = 1
  /\ pc = NoPc
  /\ ret = Ret("none", 0, "")

NextAdj ==
  \/ \E d \in Difficulties :
        next_id <= AdjInterviews /\ CreateInterview(1, d)
  \/ StartQuestionGeneration
  \/ \E genOk \in BOOLEAN : StartFinish(AdjQuestions, genOk, TRUE)
  \/ \E i \in 1..AdjInterviews, q \in 1..AdjQuestions, ev \in AdjustEvalInputs :
        TotalSubmits < AdjSubmits /\ ProcessAnswer(i, q, ev, TRUE)
  \/ \E i \in 1..AdjInterviews : ShouldAdjust(i)

SpecAdj == InitAdj /\ [][NextAdj]_vars

\* ================================================================ proctoring
\* ai_modules/proctoring: the AntiCheatMonitor, its sessions and the report.
\* Ratios and scores are exact fractions [num, den]; a confidence is a
\* percentage (0.95 is 95).  The detectors are inputs: how many faces the face
\* detection returned, what the face mesh said about the gaze, and whether the
\* verification matched the reference.

MaxFrames == 12
MaxViolations == 1
NoFaceFrames == 17
NoFaceViolations == 2
FacesFrames == 17
FacesViolations == 2
LifecycleFrames == 1
LifecycleViolations == 1
ReportFrames == 4
ReportViolations == 3
OverlapFrames == 4

ProctorSessionIds == {"s1"}
LifecycleSessionIds == {"s1", "s2"}
Sensitivities == {"low", "medium", "high"}
FaceCounts == {0, 1, 2}
MeshResults == {"none", "away", "screen"}
EventTypes == {"switch", "blur", "focus"}
Severities == {"critical", "high", "medium", "low"}

MEDIAPIPE_AVAILABLE == TRUE
DEEPFACE_AVAILABLE == TRUE

\* The confidence _verify_person reports for a face that does not match.
MismatchConfidence == 30

configure_sensitivity(sensitivity) ==
  IF sensitivity = "low"
    THEN [created |-> TRUE, no_face_frames_threshold |-> 60,
          looking_away_frames_threshold |-> 45]
    ELSE IF sensitivity = "high"
      THEN [created |-> TRUE, no_face_frames_threshold |-> 15,
            looking_away_frames_threshold |-> 10]
      ELSE [created |-> TRUE, no_face_frames_threshold |-> 30,
            looking_away_frames_threshold |-> 20]

AntiCheatMonitor(sensitivity) == configure_sensitivity(sensitivity)

\* get_monitor(): the global monitor, created on first use.
get_monitor == IF proctor_monitor.created THEN proctor_monitor
               ELSE AntiCheatMonitor("medium")

Violation(type, severity, confidence, frame_number) ==
  [type |-> type, severity |-> severity, confidence |-> confidence,
   frame_number |-> frame_number]

ProctorSession(user_id, interview_id, has_reference, monitor) ==
  [user_id |-> user_id, interview_id |-> interview_id,
   has_reference |-> has_reference /\ DEEPFACE_AVAILABLE,
   violations |-> <<>>, frame_count |-> 0, face_visible_frames |-> 0,
   looking_away_frames |-> 0,
   no_face_threshold |-> monitor.no_face_frames_threshold,
   looking_away_threshold |-> monitor.looking_away_frames_threshold]

Max(a, b) == IF a >= b THEN a ELSE b
Min(a, b) == IF a <= b THEN a ELSE b

get_face_visibility_ratio(session) ==
  IF session.frame_count = 0 THEN [num |-> 0, den |-> 1]
  ELSE [num |-> 100 * session.face_visible_frames, den |-> session.frame_count]

get_attention_ratio_visible(session) ==
  IF session.frame_count = 0 THEN [num |-> 0, den |-> 1]
  ELSE [num |-> 100 * session.face_visible_frames, den |-> session.frame_count]

get_attention_ratio(session) ==
  IF session.frame_count = 0 THEN [num |-> 0, den |-> 1]
  ELSE [num |-> Max(0, 100 * (session.face_visible_frames
                               - session.looking_away_frames)),
        den |-> session.frame_count]

SeverityDeductionFlat(severity) ==
  IF severity = "critical" THEN 20
  ELSE IF severity = "high" THEN 5
  ELSE IF severity = "medium" THEN 5
  ELSE 2

SeverityDeduction(severity) ==
  IF severity = "critical" THEN 20
  ELSE IF severity = "high" THEN 10
  ELSE IF severity = "medium" THEN 5
  ELSE 2

\* The loop over session.violations, on a score counted in 1/den.
DeductViolations(score, violations, den) ==
  LET RECURSIVE D(_, _)
      D(s, i) == IF i > Len(violations) THEN s
                 ELSE D(s - den * SeverityDeduction(violations[i].severity),
                        i + 1)
  IN D(score, 1)

\* A variant of calculate_integrity_score without the final clamp to
\* [0, 100] (C24 must reject it).
calculate_integrity_score_unclamped(session) ==
  LET visibility == get_face_visibility_ratio(session)
      attention == get_attention_ratio(session)
      n == visibility.den
      den == 10 * n
      s0 == 100 * den
      s1 == IF visibility.num < 95 * n
              THEN s0 - 5 * (95 * n - visibility.num) ELSE s0
      s2 == IF attention.num < 90 * n
              THEN s1 - 3 * (90 * n - attention.num) ELSE s1
  IN [num |-> DeductViolations(s2, session.violations, den), den |-> den]

\* The score as a fraction of denominator 10 * frame_count: (95 - v) * 0.5 is
\* 5 * (95 * frame_count - 100 * face_visible_frames) tenths of 1/frame_count.
calculate_integrity_score(session) ==
  LET visibility == get_face_visibility_ratio(session)
      attention == get_attention_ratio(session)
      n == visibility.den
      den == 10 * n
      s0 == 100 * den
      s1 == IF visibility.num < 95 * n
              THEN s0 - 5 * (95 * n - visibility.num) ELSE s0
      s2 == IF attention.num < 90 * n
              THEN s1 - 3 * (90 * n - attention.num) ELSE s1
      s3 == DeductViolations(s2, session.violations, den)
  IN [num |-> Max(0, Min(100 * den, s3)), den |-> den]

CriticalCount(violations) ==
  Cardinality({i \in 1..Len(violations) : violations[i].severity = "critical"})

get_recommendation_by_score(integrity_score, violations) ==
  IF integrity_score.num >= 90 * integrity_score.den
    THEN "PASSED: No significant integrity concerns."
  ELSE IF integrity_score.num >= 70 * integrity_score.den
    THEN "PASSED WITH NOTES: Minor issues detected. Review if needed."
  ELSE IF integrity_score.num >= 50 * integrity_score.den
    THEN "FLAGGED: Multiple issues detected. Manual review recommended."
  ELSE "FAILED: Significant integrity concerns. Investigation required."

get_recommendation(integrity_score, violations) ==
  IF CriticalCount(violations) > 0
    THEN "REVIEW REQUIRED: Critical violations detected. Manual review recommended."
  ELSE IF integrity_score.num >= 90 * integrity_score.den
    THEN "PASSED: No significant integrity concerns."
  ELSE IF integrity_score.num >= 70 * integrity_score.den
    THEN "PASSED WITH NOTES: Minor issues detected. Review if needed."
  ELSE IF integrity_score.num >= 50 * integrity_score.den
    THEN "FLAGGED: Multiple issues detected. Manual review recommended."
  ELSE "FAILED: Significant integrity concerns. Investigation required."

\* round(x, 2), in hundredths.
Round2(x) == RoundDiv(100 * x.num, x.den)

get_session_report(session_id) ==
  LET session == sessions[session_id]
      integrity_score == calculate_integrity_score(session)
  IN [session_id |-> session_id, user_id |-> session.user_id,
      interview_id |-> session.interview_id,
      duration_frames |-> session.frame_count,
      face_visibility_ratio |-> Round2(get_face_visibility_ratio(session)),
      attention_ratio |-> Round2(get_attention_ratio(session)),
      integrity_score |-> Round2(integrity_score),
      total_violations |-> Len(session.violations),
      critical_violations |-> CriticalCount(session.violations),
      violations |-> session.violations,
      recommendation |->
        get_recommendation(integrity_score, session.violations)]

Known(session_id) == session_id \in DOMAIN sessions

StoreSession(map, session_id, value) ==
  [k \in DOMAIN map \cup {session_id} |->
     IF k = session_id THEN value ELSE map[k]]

DropSessionKeep(map, session_id) == map

DropSession(map, session_id) ==
  [k \in DOMAIN map \ {session_id} |-> map[k]]

AddViolation(session, type, severity, confidence) ==
  [session EXCEPT !.violations =
     Append(@, Violation(type, severity, confidence, session.frame_count))]

\* A frame as the detectors see it.
Frame(faces, mesh, same_person) ==
  [faces |-> faces, mesh |-> mesh, same_person |-> same_person]

Frames ==
  {Frame(f, m, p) : f \in FaceCounts, m \in MeshResults, p \in BOOLEAN}

\* 1. Face Detection.
FaceDetectionTwice(session, frame) ==
  IF frame.faces > 0
    THEN LET seen == [session EXCEPT !.face_visible_frames = @ + 1]
         IN IF frame.faces > 1
              THEN AddViolation(AddViolation(seen, "multiple_faces", "high", 95),
                                "multiple_faces", "high", 95)
              ELSE seen
    ELSE IF session.frame_count - session.face_visible_frames
               > session.no_face_threshold
           THEN AddViolation(session, "no_face", "medium", 90)
           ELSE session

FaceDetection(session, frame) ==
  IF frame.faces > 0
    THEN LET seen == [session EXCEPT !.face_visible_frames = @ + 1]
         IN IF frame.faces > 1
              THEN AddViolation(seen, "multiple_faces", "high", 95)
              ELSE seen
    ELSE IF session.frame_count - session.face_visible_frames
               > session.no_face_threshold
           THEN AddViolation(session, "no_face", "medium", 90)
           ELSE session

\* 2. Gaze and Head Pose Analysis: only a frame with face-mesh landmarks
\* touches looking_away_frames.
GazeAnalysis(session, frame) ==
  IF frame.mesh = "away"
    THEN LET away == [session EXCEPT !.looking_away_frames = @ + 1]
         IN IF away.looking_away_frames > away.looking_away_threshold
              THEN AddViolation(away, "looking_away", "low", 85)
              ELSE away
    ELSE IF frame.mesh = "screen"
      THEN [session EXCEPT !.looking_away_frames = 0]
      ELSE session

\* 3. Person Verification.
PersonVerification(session, frame, check_person) ==
  IF /\ check_person
     /\ frame.faces > 0
     /\ DEEPFACE_AVAILABLE
     /\ session.has_reference
     /\ ~frame.same_person
    THEN AddViolation(session, "different_person", "critical",
                      MismatchConfidence)
    ELSE session

CountFrameStale(session, seen) ==
  [session EXCEPT !.frame_count = seen + 1]

\* session.frame_count += 1, whatever the count was when the request came in.
CountFrame(session, seen) ==
  [session EXCEPT !.frame_count = @ + 1]

\* AntiCheatMonitor.analyze_frame on a session that exists: the session after
\* the frame.  seen is frame_count as it was when the request was received.
analyze_frame(session, frame, check_person, seen) ==
  LET counted == CountFrame(session, seen)
  IN IF ~MEDIAPIPE_AVAILABLE THEN counted
     ELSE PersonVerification(
            GazeAnalysis(FaceDetection(counted, frame), frame),
            frame, check_person)

\* results["looking_at_screen"]: True unless the face mesh found landmarks
\* and _is_looking_away said so.
LookingAtScreen(frame) == ~(MEDIAPIPE_AVAILABLE /\ frame.mesh = "away")

\* The results dictionary analyze_frame returns: the frame's number and the
\* violations of this frame.
FrameResults(session_id, before, after, frame) ==
  [NoProctorRet EXCEPT
     !.op = "analyze_frame", !.session_id = session_id, !.code = "200",
     !.frame_number = after.frame_count,
     !.violations = SubSeq(after.violations, Len(before.violations) + 1,
                           Len(after.violations))]

NotFound(op, session_id) ==
  [NoProctorRet EXCEPT !.op = op, !.session_id = session_id, !.code = "404"]

\* AntiCheatMonitor.start_session.
StartSession(session_id, user_id, interview_id, has_reference) ==
  /\ proctor_monitor.created
  /\ sessions' = StoreSession(sessions, session_id,
                   ProctorSession(user_id, interview_id, has_reference,
                                  proctor_monitor))
  /\ away_run' = StoreSession(away_run, session_id, 0)
  /\ away_total' = StoreSession(away_total, session_id, 0)
  /\ proctor_ret' = [NoProctorRet EXCEPT !.op = "start_session",
                       !.session_id = session_id, !.code = "200"]
  /\ UNCHANGED <<proctor_monitor, in_flight>>
  /\ UNCHANGED <<agentVars, toolVars>>

\* POST /proctoring/session/start: the session id carries the timestamp, so
\* it is an id no session has; request.sensitivity is not read.
StartProctoringSession(session_id, user_id, interview_id, sensitivity) ==
  /\ session_id \notin DOMAIN sessions
  /\ proctor_monitor' = get_monitor
  /\ sessions' = StoreSession(sessions, session_id,
                   ProctorSession(user_id, interview_id, FALSE, get_monitor))
  /\ away_run' = StoreSession(away_run, session_id, 0)
  /\ away_total' = StoreSession(away_total, session_id, 0)
  /\ proctor_ret' = [NoProctorRet EXCEPT !.op = "start_proctoring_session",
                       !.session_id = session_id, !.code = "200"]
  /\ UNCHANGED in_flight
  /\ UNCHANGED <<agentVars, toolVars>>

\* analyze_frame from lookup to return, for a request that saw frame_count as
\* seen when it came in.
HandleFrame(session_id, frame, check_person, seen) ==
  IF session_id \notin DOMAIN sessions
    THEN /\ proctor_ret' = NotFound("analyze_frame", session_id)
         /\ UNCHANGED <<sessions, away_run, away_total>>
    ELSE LET before == sessions[session_id]
             after == analyze_frame(before, frame, check_person, seen)
             results == FrameResults(session_id, before, after, frame)
         IN /\ sessions' = [sessions EXCEPT ![session_id] = after]
            /\ away_run' = [away_run EXCEPT ![session_id] =
                              IF LookingAtScreen(frame) THEN 0 ELSE @ + 1]
            /\ away_total' = [away_total EXCEPT ![session_id] =
                                IF LookingAtScreen(frame) THEN @ ELSE @ + 1]
            /\ proctor_ret' = results

\* AntiCheatMonitor.analyze_frame, called and run to its return.
AnalyzeFrame(session_id, frame, check_person) ==
  /\ HandleFrame(session_id, frame, check_person,
                 IF session_id \in DOMAIN sessions
                   THEN sessions[session_id].frame_count ELSE 0)
  /\ UNCHANGED <<proctor_monitor, in_flight>>
  /\ UNCHANGED <<agentVars, toolVars>>

\* POST /proctoring/analyze-frame arrives: a request in flight, with
\* frame_count as it is at that moment and no response yet.
ReceiveFrame(request_id, session_id, frame, check_person) ==
  /\ \A r \in in_flight : r.request_id # request_id
  /\ Known(session_id)
  /\ in_flight' = in_flight \cup
       {[request_id |-> request_id, session_id |-> session_id,
         frame |-> frame, check_person |-> check_person,
         seen |-> sessions[session_id].frame_count,
         code |-> "", frame_number |-> 0]}
  /\ UNCHANGED <<proctor_monitor, sessions, away_run, away_total, proctor_ret>>
  /\ UNCHANGED <<agentVars, toolVars>>

\* The event loop runs one received request: the endpoint is a coroutine
\* that does not await between the lookup and the return of analyze_frame,
\* so no other request runs in between.  The response is kept with the
\* request until it is sent.
ServeFrame(request) ==
  /\ request \in in_flight
  /\ request.code = ""
  /\ HandleFrame(request.session_id, request.frame, request.check_person,
                 request.seen)
  /\ in_flight' = (in_flight \ {request}) \cup
       {[request EXCEPT !.code = proctor_ret'.code,
                        !.frame_number = proctor_ret'.frame_number]}
  /\ UNCHANGED proctor_monitor
  /\ UNCHANGED <<agentVars, toolVars>>

\* The response of a served request is sent.
SendResults(request) ==
  /\ request \in in_flight
  /\ request.code # ""
  /\ in_flight' = in_flight \ {request}
  /\ UNCHANGED <<proctor_monitor, sessions, away_run, away_total, proctor_ret>>
  /\ UNCHANGED <<agentVars, toolVars>>

\* AntiCheatMonitor.process_tab_switch.
ProcessTabSwitch(session_id, event_type) ==
  /\ IF session_id \notin DOMAIN sessions
       THEN /\ proctor_ret' = NotFound("process_tab_switch", session_id)
            /\ UNCHANGED sessions
       ELSE LET violation_type == IF event_type = "switch" THEN "tab_switch"
                                  ELSE "window_blur"
                after == AddViolation(sessions[session_id], violation_type,
                                      "medium", 100)
            IN /\ sessions' = [sessions EXCEPT ![session_id] = after]
               /\ proctor_ret' =
                    [NoProctorRet EXCEPT !.op = "process_tab_switch",
                       !.session_id = session_id, !.code = "200",
                       !.violations =
                          <<after.violations[Len(after.violations)]>>]
  /\ UNCHANGED <<proctor_monitor, away_run, away_total, in_flight>>
  /\ UNCHANGED <<agentVars, toolVars>>

\* AntiCheatMonitor.get_session_report.
GetSessionReport(session_id) ==
  /\ proctor_ret' =
       IF session_id \notin DOMAIN sessions
         THEN NotFound("get_session_report", session_id)
         ELSE [NoProctorRet EXCEPT !.op = "get_session_report",
                 !.session_id = session_id, !.code = "200",
                 !.report = get_session_report(session_id)]
  /\ UNCHANGED <<proctor_monitor, sessions, away_run, away_total, in_flight>>
  /\ UNCHANGED <<agentVars, toolVars>>

\* AntiCheatMonitor.end_session.
EndSession(session_id) ==
  /\ IF session_id \notin DOMAIN sessions
       THEN /\ proctor_ret' = NotFound("end_session", session_id)
            /\ UNCHANGED <<sessions, away_run, away_total>>
       ELSE /\ proctor_ret' =
                 [NoProctorRet EXCEPT !.op = "end_session",
                    !.session_id = session_id, !.code = "200",
                    !.report = get_session_report(session_id)]
            /\ sessions' = DropSession(sessions, session_id)
            /\ away_run' = DropSession(away_run, session_id)
            /\ away_total' = DropSession(away_total, session_id)
  /\ UNCHANGED <<proctor_monitor, in_flight>>
  /\ UNCHANGED <<agentVars, toolVars>>

\* ------------------------------------------------------ proctoring behaviours
\* One session with a reference photo under a monitor of high sensitivity,
\* the profile whose thresholds (15 and 10 frames) a short run of frames
\* crosses.
InitProctor ==
  /\ AgentIdle
  /\ ToolsIdle
  /\ proctor_monitor = AntiCheatMonitor("high")
  /\ sessions = <<>>
  /\ away_run = <<>>
  /\ away_total = <<>>
  /\ in_flight = {}
  /\ proctor_ret = NoProctorRet

NextProctor ==
  \/ \E session_id \in ProctorSessionIds :
        /\ session_id \notin DOMAIN sessions
        /\ StartSession(session_id, 1, 1, TRUE)
  \/ \E session_id \in ProctorSessionIds, frame \in Frames,
        check_person \in BOOLEAN :
        /\ session_id \in DOMAIN sessions
        /\ sessions[session_id].frame_count < MaxFrames
        /\ Len(sessions[session_id].violations) < MaxViolations
        /\ AnalyzeFrame(session_id, frame, check_person)

SpecProctor == InitProctor /\ [][NextProctor]_vars

\* A session well under way, at the point where its next frames cross a
\* threshold: after 14 frames with one face, the last 10 of them looking away,
\* or after 15 frames without a face and without landmarks.
MidSessions ==
  LET fresh == ProctorSession(1, 1, TRUE, AntiCheatMonitor("high"))
  IN {[fresh EXCEPT !.frame_count = 14, !.face_visible_frames = 14,
                    !.looking_away_frames = 10],
      [fresh EXCEPT !.frame_count = 15]}

InitFaces ==
  /\ AgentIdle
  /\ ToolsIdle
  /\ proctor_monitor = AntiCheatMonitor("high")
  /\ \E session \in MidSessions :
        /\ sessions = [session_id \in ProctorSessionIds |-> session]
        /\ away_run = [session_id \in ProctorSessionIds |->
                         session.looking_away_frames]
        /\ away_total = [session_id \in ProctorSessionIds |->
                           session.looking_away_frames]
  /\ in_flight = {}
  /\ proctor_ret = NoProctorRet

NextFaces ==
  \E session_id \in ProctorSessionIds, frame \in Frames,
     check_person \in BOOLEAN :
     /\ session_id \in DOMAIN sessions
     /\ sessions[session_id].frame_count < FacesFrames
     /\ Len(sessions[session_id].violations) < FacesViolations
     /\ AnalyzeFrame(session_id, frame, check_person)

SpecFaces == InitFaces /\ [][NextFaces]_vars

\* The candidate leaves and comes back: frames on which the face mesh agrees
\* with the face detection (no face and no landmarks, or faces and a gaze at
\* the screen), for long enough to pass the no-face threshold.
CoherentFrames ==
  {Frame(0, "none", TRUE), Frame(1, "screen", TRUE), Frame(2, "screen", TRUE)}

NextNoFace ==
  \/ \E session_id \in ProctorSessionIds :
        /\ session_id \notin DOMAIN sessions
        /\ StartSession(session_id, 1, 1, FALSE)
  \/ \E session_id \in ProctorSessionIds, frame \in CoherentFrames :
        /\ session_id \in DOMAIN sessions
        /\ sessions[session_id].frame_count < NoFaceFrames
        /\ Len(sessions[session_id].violations) < NoFaceViolations
        /\ AnalyzeFrame(session_id, frame, FALSE)

SpecNoFace == InitProctor /\ [][NextNoFace]_vars

\* The life of two sessions under one monitor: started, fed a few frames and
\* tab events, reported and ended, each call also tried on an id that has no
\* session.
NextLifecycle ==
  \/ \E session_id \in LifecycleSessionIds :
        /\ ~Known(session_id)
        /\ StartSession(session_id, 1, 1, FALSE)
  \/ \E session_id \in LifecycleSessionIds, frame \in CoherentFrames :
        /\ Known(session_id) =>
             /\ sessions[session_id].frame_count < LifecycleFrames
             /\ Len(sessions[session_id].violations) < LifecycleViolations
        /\ AnalyzeFrame(session_id, frame, FALSE)
  \/ \E session_id \in LifecycleSessionIds, event_type \in EventTypes :
        /\ Known(session_id) =>
             Len(sessions[session_id].violations) < LifecycleViolations
        /\ ProcessTabSwitch(session_id, event_type)
  \/ \E session_id \in LifecycleSessionIds : GetSessionReport(session_id)
  \/ \E session_id \in LifecycleSessionIds : EndSession(session_id)

SpecLifecycle == InitProctor /\ [][NextLifecycle]_vars

\* The deployed endpoints: sessions are started through POST /session/start
\* with a requested sensitivity, on the monitor get_monitor() provides.
NextEndpoints ==
  \/ \E session_id \in LifecycleSessionIds, sensitivity \in Sensitivities :
        StartProctoringSession(session_id, 1, 1, sensitivity)
  \/ \E session_id \in LifecycleSessionIds, frame \in CoherentFrames :
        /\ Known(session_id)
        /\ sessions[session_id].frame_count < LifecycleFrames
        /\ Len(sessions[session_id].violations) < LifecycleViolations
        /\ AnalyzeFrame(session_id, frame, FALSE)
  \/ \E session_id \in LifecycleSessionIds, event_type \in EventTypes :
        /\ Known(session_id)
        /\ Len(sessions[session_id].violations) < LifecycleViolations
        /\ ProcessTabSwitch(session_id, event_type)
  \/ \E session_id \in LifecycleSessionIds :
        Known(session_id) /\ GetSessionReport(session_id)
  \/ \E session_id \in LifecycleSessionIds :
        Known(session_id) /\ EndSession(session_id)

SpecEndpoints == Init /\ [][NextEndpoints]_vars

\* Frame requests that overlap: up to two are in flight for the one session
\* at a time, served in either order.
RequestIds == {1, 2}

NextOverlap ==
  \/ \E session_id \in ProctorSessionIds :
        ~Known(session_id) /\ StartSession(session_id, 1, 1, FALSE)
  \/ \E request_id \in RequestIds, session_id \in ProctorSessionIds,
        frame \in CoherentFrames :
        /\ Known(session_id)
        /\ sessions[session_id].frame_count + Cardinality(in_flight)
             < OverlapFrames
        /\ ReceiveFrame(request_id, session_id, frame, FALSE)
  \/ \E request \in in_flight : ServeFrame(request)
  \/ \E request \in in_flight : SendResults(request)

SpecOverlap == InitProctor /\ [][NextOverlap]_vars

\* ------------------------------------------------------------ the report
\* A session as the report finds it: its counters, and violations of any
\* severities in any order.  Scenario S6 of the specification (100 frames, 95
\* with a face, 10 looking away) is among the counters.
ScenarioS6 == <<100, 95, 10>>

ReportCounters ==
  {<<frame_count, face_visible, looking_away>> :
     frame_count \in 0..ReportFrames, face_visible \in 0..ReportFrames,
     looking_away \in 0..ReportFrames} \cup {ScenarioS6}

SeveritySeqs ==
  UNION {[1..k -> Severities] : k \in 0..ReportViolations}

\* A violation of the given severity, as analyze_frame and process_tab_switch
\* create them.
ViolationOf(severity, frame_number) ==
  IF severity = "critical"
    THEN Violation("different_person", "critical", MismatchConfidence,
                   frame_number)
  ELSE IF severity = "high"
    THEN Violation("multiple_faces", "high", 95, frame_number)
  ELSE IF severity = "medium"
    THEN Violation("tab_switch", "medium", 100, frame_number)
  ELSE Violation("looking_away", "low", 85, frame_number)

ReportSession(counters, severities) ==
  [ProctorSession(1, 1, TRUE, AntiCheatMonitor("low")) EXCEPT
     !.frame_count = counters[1], !.face_visible_frames = counters[2],
     !.looking_away_frames = counters[3],
     !.violations = [i \in 1..Len(severities) |->
                       ViolationOf(severities[i], counters[1])]]

InitReport ==
  /\ AgentIdle
  /\ ToolsIdle
  /\ proctor_monitor = AntiCheatMonitor("low")
  /\ \E counters \in ReportCounters, severities \in SeveritySeqs :
        /\ counters[2] <= counters[1]
        /\ counters[3] <= counters[1]
        /\ sessions = [session_id \in ProctorSessionIds |->
                         ReportSession(counters, severities)]
        /\ away_run = [session_id \in ProctorSessionIds |-> counters[3]]
        /\ away_total = [session_id \in ProctorSessionIds |-> counters[3]]
  /\ in_flight = {}
  /\ proctor_ret = NoProctorRet

NextReport ==
  \E session_id \in ProctorSessionIds : GetSessionReport(session_id)

SpecReport == InitReport /\ [][NextReport]_vars

\* ---------------------------------------------------- overlapping submits
\* process_answer requests that overlap: up to two are in flight for the one
\* session at a time, for the same question or for different ones, run in
\* either order.
AnswerQuestions == 2
OverlapAnswers == 2

NextAnswers ==
  \/ \E u \in Users : next_id <= AgentInterviews /\ CreateInterview(u, DefaultDifficulty)
  \/ StartQuestionGeneration
  \/ \E genOk \in BOOLEAN, fallbackOk \in BOOLEAN :
        StartFinish(AnswerQuestions, genOk, fallbackOk)
  \/ \E request_id \in RequestIds, i \in 1..AgentInterviews,
        q \in 1..AnswerQuestions, ev \in EvalInputs :
        /\ TotalSubmits + Cardinality({r \in in_flight : r.code = ""})
             < OverlapAnswers
        /\ ReceiveAnswer(request_id, i, q, ev)
  \/ \E request \in in_flight : ServeAnswer(request)
  \/ \E request \in in_flight : ReturnAnswer(request)

SpecAnswers == Init /\ [][NextAnswers]_vars

\* A submit that is in flight while its interview is completed or cancelled
\* (one submit at a time).
SubmitKinds == {"text", "audio", "video"}

NextClosing ==
  \/ \E u \in Users : next_id <= BackendInterviews /\ CreateInterview(u, DefaultDifficulty)
  \/ StartQuestionGeneration
  \/ \E genOk \in BOOLEAN, fallbackOk \in BOOLEAN :
        StartFinish(BackendQuestions, genOk, fallbackOk)
  \/ \E request_id \in RequestIds, kind \in SubmitKinds, u \in Users,
        i \in 1..BackendInterviews, q \in 1..BackendQuestions :
        /\ in_flight = {}
        /\ db_interviews[i].status = "in_progress"
        /\ ReceiveSubmit(request_id, kind, u, i, q)
  \/ \E request \in in_flight : ServeSubmit(request)
  \/ \E request \in in_flight : SendSubmitResponse(request)
  \/ \E u \in Users, i \in InterviewIds : CompleteBegin(u, i)
  \/ CompleteSteps
  \/ \E u \in Users, i \in InterviewIds : CancelInterview(u, i)

SpecClosing == Init /\ [][NextClosing]_vars

\* ------------------------------------------------------- the final scores
\* One session whose answers take scores from the ends and the middle of the
\* scale, completed through the agent.
ScoreQuestions == 3
ScoreSubmits == 3
ScoreEvalInputs == {<<0, 0>>, <<85, 70>>, <<100, 100>>}

NextScores ==
  \/ next_id <= AgentInterviews /\ CreateInterview(1, DefaultDifficulty)
  \/ StartQuestionGeneration
  \/ \E genOk \in BOOLEAN : StartFinish(ScoreQuestions, genOk, TRUE)
  \/ \E i \in 1..AgentInterviews, q \in 1..ScoreQuestions,
        ev \in ScoreEvalInputs :
        TotalSubmits < ScoreSubmits /\ ProcessAnswer(i, q, ev, TRUE)
  \/ \E i \in 1..AgentInterviews : CompleteBegin(1, i)
  \/ CompleteSteps

SpecScores == Init /\ [][NextScores]_vars

\* ------------------------------------------------- nlp/answer_evaluator.py
\* An answer as the evaluator sees it: the number of tokens word_tokenize
\* returns, the length of its words, the number of sentences, whether it has
\* one of the example indicators, how many of the question's keywords it
\* repeats (<<found, of>>), how many of the expected keywords it has
\* (<<found, of>>, <<0, 0>> without expected keywords), how many transition
\* words, and whether its sentences vary in length by less than 100.
WordCounts == {0, 1, 2, 3, 9, 10, 19, 20, 49, 50, 99, 100}
WordLengths == {3, 5, 7}
Overlaps == {<<0, 0>>, <<0, 2>>, <<1, 2>>, <<2, 2>>}

Answers ==
  {a \in [word_count : WordCounts, word_length : WordLengths,
          sentence_count : 1..3, example : BOOLEAN, overlap : Overlaps,
          expected : Overlaps, transitions : 0..2, even : BOOLEAN] :
     /\ a.sentence_count <= a.word_count \/ a.sentence_count = 1
     /\ a.word_count = 0
          => (~a.example /\ a.overlap[1] = 0 /\ a.expected[1] = 0
              /\ a.transitions = 0)}

\* len(answer.strip()): the words and the blanks between them.
StrippedLength(a) ==
  IF a.word_count = 0 THEN 0 ELSE a.word_count * (a.word_length + 1) - 1

\* _calculate_content_score, as a fraction of denominator 15.
calculate_content_score(a) ==
  LET wc == a.word_count
      length == IF wc < 20 THEN 15 * wc
                ELSE IF wc < 50 THEN 15 * 20 + 5 * (wc - 20)
                ELSE IF wc < 100 THEN 15 * 30 + 3 * (wc - 50)
                ELSE 15 * 40
      structure == IF a.sentence_count >= 3 THEN 15
                   ELSE IF a.sentence_count >= 2 THEN 10
                   ELSE 5
      examples == IF a.example THEN 15 ELSE 0
      complexity == IF a.word_length > 5 THEN 15
                    ELSE IF a.word_length > 4 THEN 10
                    ELSE 5
  IN [num |-> Min(length + 15 * (structure + examples + complexity), 15 * 100),
      den |-> 15]

\* _calculate_relevance_score: up to 50 for the overlap with the question's
\* keywords, up to 50 for the expected keywords (25 without any).
calculate_relevance_score(a) ==
  LET m == IF a.overlap[2] = 0 THEN 1 ELSE a.overlap[2]
      e == IF a.expected[2] = 0 THEN 1 ELSE a.expected[2]
      overlap == 50 * a.overlap[1] * e
      keywords == IF a.expected[2] = 0 THEN 25 * m * e
                  ELSE 50 * a.expected[1] * m
  IN [num |-> Min(overlap + keywords, 100 * m * e), den |-> m * e]

\* _calculate_coherence
calculate_coherence(a) ==
  IF a.sentence_count < 2 THEN 60
  ELSE Min(70 + (IF a.transitions >= 2 THEN 20
                 ELSE IF a.transitions = 1 THEN 10 ELSE 0)
              + (IF a.even THEN 10 ELSE 0), 100)

TooShort == "Answer is too short. Please provide a more detailed response."
TooBrief == "Your answer is too brief. Provide more details and examples."

\* _generate_feedback: the sentences of the feedback that speak of the
\* answer's length.
generate_feedback(content, word_count) ==
  IF content.num < 60 * content.den /\ word_count < 30 THEN {TooBrief} ELSE {}

\* AnswerEvaluator.evaluate_answer, scores in hundredths (coherence_score is
\* -1 where the result has none).
evaluate_answer(a) ==
  IF StrippedLength(a) < 10
  THEN [content_score |-> 0, relevance_score |-> 0, coherence_score |-> -1,
        word_count |-> 0, feedback |-> {TooShort}]
  ELSE [content_score |-> Round2(calculate_content_score(a)),
        relevance_score |-> Round2(calculate_relevance_score(a)),
        coherence_score |-> 100 * calculate_coherence(a),
        word_count |-> a.word_count,
        feedback |-> generate_feedback(calculate_content_score(a),
                                       a.word_count)]

\* A call of evaluate_answer (by a submit handler or by the agent's tools).
EvaluateAnswer(a) ==
  /\ evaluation' = [answer |-> a, result |-> evaluate_answer(a)]
  /\ UNCHANGED <<generated, question_bank>>
  /\ UNCHANGED <<agentVars, proctorVars>>

\* One call, on any answer.
NextEvaluator ==
  /\ evaluation = NoEvaluation
  /\ \E a \in Answers : EvaluateAnswer(a)

SpecEvaluator == Init /\ [][NextEvaluator]_vars

\* ------------------------------------------------------------ agent/tools.py
\* The question lists the tools post-process.  A string is the sequence of its
\* characters, over the letters a and b in both cases; a question has a text
\* (numbered), a category ("" when it has none) and a list of keywords.
MaxListed == 3
MaxAreas == 2

LowerChar(c) ==
  IF c = "A" THEN "a" ELSE IF c = "B" THEN "b" ELSE c

\* str.lower()
lower(string) == [i \in 1..Len(string) |-> LowerChar(string[i])]

\* Python's `needle in hay` on strings.
Contains(hay, needle) ==
  \E i \in 0..(Len(hay) - Len(needle)) :
     SubSeq(hay, i + 1, i + Len(needle)) = needle

\* Questions: with a category and no keywords, with a keyword in capitals,
\* with a category and a keyword that hold no "a", and with two keywords.
Questions ==
  {[text |-> 1, category |-> <<"a", "b">>, keywords |-> <<>>],
   [text |-> 2, category |-> <<>>, keywords |-> <<<<"B", "A">>>>],
   [text |-> 3, category |-> <<"b">>, keywords |-> <<<<"b", "b">>>>],
   [text |-> 4, category |-> <<>>, keywords |-> <<<<"b">>, <<"a">>>>]}

\* The topics of a user's history.
Topics == {<<"A">>, <<"a", "b">>, <<"B", "a">>}

SeqsUpTo(S, n) == UNION {[1..k -> S] : k \in 0..n}

\* A variant of is_focus that compares the focus area as it is written (C27
\* must reject it).
is_focus_exact(q, focus_areas) ==
  \E a \in 1..Len(focus_areas) :
     \/ Contains(lower(q.category), focus_areas[a])
     \/ \E k \in 1..Len(q.keywords) :
           Contains(lower(q.keywords[k]), focus_areas[a])

\* is_focus of _prioritize_focus_areas.
is_focus(q, focus_areas) ==
  \E a \in 1..Len(focus_areas) :
     \/ Contains(lower(q.category), lower(focus_areas[a]))
     \/ \E k \in 1..Len(q.keywords) :
           Contains(lower(q.keywords[k]), lower(focus_areas[a]))

\* AgentTools._prioritize_focus_areas
prioritize_focus_areas(questions, focus_areas) ==
  SelectSeq(questions, LAMBDA q : is_focus(q, focus_areas))
    \o SelectSeq(questions, LAMBDA q : ~is_focus(q, focus_areas))

\* A call of _prioritize_focus_areas.
PrioritizeFocusAreas(questions, focus_areas) ==
  /\ generated' = [NoGenerated EXCEPT !.op = "prioritize_focus_areas",
                     !.questions = questions, !.focus_areas = focus_areas,
                     !.result = prioritize_focus_areas(questions, focus_areas)]
  /\ UNCHANGED <<evaluation, question_bank>>
  /\ UNCHANGED <<agentVars, proctorVars>>

\* One call, on any question list and any non-empty list of focus areas
\* (generate_questions calls it only with a non-empty list).
NextPrioritize ==
  /\ generated = NoGenerated
  /\ \E questions \in SeqsUpTo(Questions, MaxListed),
        focus_areas \in SeqsUpTo(Topics, MaxAreas) \ {<<>>} :
        PrioritizeFocusAreas(questions, focus_areas)

SpecPrioritize == Init /\ [][NextPrioritize]_vars

\* should_avoid of _filter_avoid_topics.
should_avoid(q, avoid_topics) ==
  \E t \in 1..Len(avoid_topics) :
     \/ Contains(lower(q.category), lower(avoid_topics[t]))
     \/ \E k \in 1..Len(q.keywords) :
           Contains(lower(q.keywords[k]), lower(avoid_topics[t]))

\* AgentTools._filter_avoid_topics
filter_avoid_topics(questions, avoid_topics) ==
  SelectSeq(questions, LAMBDA q : ~should_avoid(q, avoid_topics))

\* AgentState.max_questions_per_interview
max_questions_per_interview == 10

\* AgentTools.generate_questions, from what the question generator returned:
\* an empty list of focus areas or avoid-topics stands for None as well.
generate_questions(questions, focus_areas, avoid_topics, num_questions) ==
  LET prioritized == IF focus_areas # <<>>
                     THEN prioritize_focus_areas(questions, focus_areas)
                     ELSE questions
      filtered == IF avoid_topics # <<>>
                  THEN filter_avoid_topics(prioritized, avoid_topics)
                  ELSE prioritized
  IN SubSeq(filtered, 1, Min(Len(filtered), num_questions))

\* The avoid_topics of _generate_interview_questions (lines 398-402).
AvoidTopics(known_strong_areas) ==
  IF Len(known_strong_areas) > 3 THEN SubSeq(known_strong_areas, 1, 2)
  ELSE <<>>

\* InterviewAgent._generate_interview_questions for a context whose history
\* gave known_weak_areas and known_strong_areas; questions is what the
\* question generator returns.
GenerateInterviewQuestions(questions, known_weak_areas, known_strong_areas) ==
  /\ generated' =
       [NoGenerated EXCEPT !.op = "generate_interview_questions",
          !.questions = questions, !.focus_areas = known_weak_areas,
          !.avoid_topics = AvoidTopics(known_strong_areas),
          !.strong_areas = known_strong_areas,
          !.result = generate_questions(questions, known_weak_areas,
                                        AvoidTopics(known_strong_areas),
                                        max_questions_per_interview)]
  /\ UNCHANGED <<evaluation, question_bank>>
  /\ UNCHANGED <<agentVars, proctorVars>>

\* One start, for any history of up to MaxStrong strong topics.
MaxStrong == 4
MaxWeak == 1

NextAvoid ==
  /\ generated = NoGenerated
  /\ \E questions \in SeqsUpTo(Questions, MaxListed),
        known_weak_areas \in SeqsUpTo(Topics, MaxWeak),
        known_strong_areas \in SeqsUpTo(Topics, MaxStrong) :
        GenerateInterviewQuestions(questions, known_weak_areas,
                                   known_strong_areas)

SpecAvoid == Init /\ [][NextAvoid]_vars

\* ------------------------------------------------ nlp/question_generator.py
InterviewTypes == {"general", "hr"}
Levels == <<"easy", "medium", "hard">>

\* How many questions _generate_general_questions and _generate_hr_questions
\* ask of the easy, medium and hard lists, for each requested difficulty.
DifficultyMix(interview_type, difficulty) ==
  IF difficulty = "easy" THEN <<3, 2, 0>>
  ELSE IF difficulty = "medium"
  THEN (IF interview_type = "general" THEN <<1, 3, 1>> ELSE <<2, 2, 1>>)
  ELSE <<0, 2, 3>>

\* random.sample(entries, min(k, len(entries))): the positions drawn, in the
\* order drawn.
Samples(entries, k) ==
  {sample \in [1..Min(k, Len(entries)) -> 1..Len(entries)] :
     \A i, j \in DOMAIN sample : i # j => sample[i] # sample[j]}

\* The tag an entry has after q["difficulty"] = difficulty and then
\* _classify_difficulty, which overrides it where the text has an indicator.
Tagged(entry, difficulty) ==
  [entry EXCEPT !.difficulty =
     IF entry.indicator # "" THEN entry.indicator ELSE difficulty]

\* QuestionGenerator.generate_questions in standard mode for the general and
\* hr types: the three samples are drawn, the entries drawn are tagged and
\* re-classified, and they are the entries of the bank themselves (the lists
\* returned hold the bank's dicts, not copies).
GenerateQuestions(interview_type, difficulty, samples) ==
  LET bank == question_bank[interview_type]
      drawn(l) == [i \in DOMAIN samples[l] |->
                     Tagged(bank[Levels[l]][samples[l][i]], difficulty)]
      tagged(l) == [j \in 1..Len(bank[Levels[l]]) |->
                      IF \E i \in DOMAIN samples[l] : samples[l][i] = j
                      THEN Tagged(bank[Levels[l]][j], difficulty)
                      ELSE bank[Levels[l]][j]]
  IN /\ generated' = [NoGenerated EXCEPT !.op = "generate_questions",
                        !.interview_type = interview_type,
                        !.difficulty = difficulty,
                        !.result = drawn(1) \o drawn(2) \o drawn(3)]
     /\ question_bank' = [question_bank EXCEPT ![interview_type] =
                            [easy |-> tagged(1), medium |-> tagged(2),
                             hard |-> tagged(3)]]
     /\ UNCHANGED evaluation
     /\ UNCHANGED <<agentVars, proctorVars>>

\* One call, for either type, any difficulty and any samples.
NextGenerator ==
  /\ generated = NoGenerated
  /\ \E interview_type \in InterviewTypes, difficulty \in Difficulties :
        LET bank == question_bank[interview_type]
            mix == DifficultyMix(interview_type, difficulty)
        IN \E easy \in Samples(bank.easy, mix[1]),
              medium \in Samples(bank.medium, mix[2]),
              hard \in Samples(bank.hard, mix[3]) :
              GenerateQuestions(interview_type, difficulty,
                                <<easy, medium, hard>>)

SpecGenerator == Init /\ [][NextGenerator]_vars

\* What _classify_difficulty reads of a question: how many of the easy,
\* medium and hard indicators its lowered text contains, the length of the
\* text, and its declared difficulty ("" when it has none).
ClassifiedQuestions ==
  [easy_count : 0..2, medium_count : 0..2, hard_count : 0..2,
   length : {50, 200, 201}, difficulty : Difficulties \cup {""}]

\* _classify_difficulty, one question of the loop.
classify_difficulty(q) ==
  IF q.hard_count > 0 \/ q.length > 200
    THEN [q EXCEPT !.difficulty = "hard"]
    ELSE IF q.medium_count > q.easy_count
      THEN [q EXCEPT !.difficulty = "medium"]
      ELSE IF q.easy_count > 0
        THEN [q EXCEPT !.difficulty = "easy"]
        ELSE q

ClassifyDifficulty(q) ==
  /\ generated' = [NoGenerated EXCEPT !.op = "classify_difficulty",
                     !.questions = <<q>>,
                     !.result = <<classify_difficulty(q)>>]
  /\ UNCHANGED <<evaluation, question_bank>>
  /\ UNCHANGED <<agentVars, proctorVars>>

NextClassify ==
  /\ generated = NoGenerated
  /\ \E q \in ClassifiedQuestions : ClassifyDifficulty(q)

SpecClassify == Init /\ [][NextClassify]_vars

\* ----------------------------------- _generate_technical_questions
\* Skill lists of a resume, in lower case as skills_lower holds them: none,
\* one that names a language and two other categories (2 + 3 + 3 questions),
\* and one that names three categories (3 + 3 + 3, cut to 8).
SkillLists ==
  {<<>>, <<"python", "sql", "architecture">>,
   <<"dsa", "sql", "system design">>}

Named(skills, names) == \E i \in 1..Len(skills) : skills[i] \in names

\* relevant_categories: the languages first, then the other categories, and
\* algorithms and databases when the skills name none.
relevant_categories(skills) ==
  LET languages == SelectSeq(<<"python", "java", "javascript">>,
                             LAMBDA lang : Named(skills, {lang}))
      algorithms == IF Named(skills, {"algorithm", "data structure", "dsa"})
                    THEN <<"algorithms">> ELSE <<>>
      databases == IF Named(skills, {"sql", "mongodb", "database",
                                     "postgresql", "mysql"})
                   THEN <<"databases">> ELSE <<>>
      system_design == IF Named(skills, {"system design", "architecture",
                                         "scalability"})
                       THEN <<"system_design">> ELSE <<>>
      named == languages \o algorithms \o databases \o system_design
  IN IF named = <<>> THEN <<"algorithms", "databases">> ELSE named

\* The categories questions are sampled from (relevant_categories[:3]) and
\* how many of each: 2 of a language, 3 of another category.
SampledCategories(skills) ==
  SubSeq(relevant_categories(skills), 1,
         Min(3, Len(relevant_categories(skills))))

SampleSize(category) ==
  IF category \in {"python", "java", "javascript"} THEN 2 ELSE 3

Flatten(seqs) ==
  LET RECURSIVE F(_)
      F(i) == IF i = 0 THEN <<>> ELSE F(i - 1) \o seqs[i]
  IN F(Len(seqs))

\* _generate_technical_questions and the re-classification of its result.
\* samples[i] are the positions random.sample draws of the i-th category,
\* choices the positions random.choice draws of algorithms + databases while
\* the list has fewer than 8 questions.
GenerateTechnicalQuestions(difficulty, skills, samples, choices) ==
  LET bank == question_bank.technical
      categories == SampledCategories(skills)
      sampled == Flatten([i \in 1..Len(categories) |->
                            [j \in DOMAIN samples[i] |->
                               <<categories[i], samples[i][j]>>]])
      all_tech_questions ==
        [k \in 1..(Len(bank.algorithms) + Len(bank.databases)) |->
           IF k <= Len(bank.algorithms) THEN <<"algorithms", k>>
           ELSE <<"databases", k - Len(bank.algorithms)>>]
      Final(entry) ==
        Tagged(entry, IF entry.difficulty = "" THEN difficulty
                      ELSE entry.difficulty)
  IN \E questions \in {sampled \o [n \in DOMAIN choices |->
                                     all_tech_questions[choices[n]]]} :
        /\ Len(questions) = Max(8, Len(sampled))
        /\ generated' = [NoGenerated EXCEPT !.op = "generate_questions",
                           !.interview_type = "technical",
                           !.difficulty = difficulty, !.skills = skills,
                           !.result =
                              [n \in 1..Min(8, Len(questions)) |->
                                 Final(bank[questions[n][1]][questions[n][2]])]]
        /\ question_bank' = [question_bank EXCEPT !.technical =
                               [category \in DOMAIN bank |->
                                  [j \in 1..Len(bank[category]) |->
                                     IF \E n \in 1..Len(questions) :
                                           questions[n] = <<category, j>>
                                     THEN Final(bank[category][j])
                                     ELSE bank[category][j]]]]
        /\ UNCHANGED evaluation
        /\ UNCHANGED <<agentVars, proctorVars>>

\* What random.sample may draw of the i-th sampled category (nothing when
\* there is no i-th category).
CategorySamples(categories, i) ==
  IF i <= Len(categories)
    THEN Samples(question_bank.technical[categories[i]],
                 SampleSize(categories[i]))
    ELSE {<<>>}

\* One call of generate_questions in standard mode: general, hr or technical.
NextQuestionSets ==
  \/ NextGenerator
  \/ /\ generated = NoGenerated
     /\ \E difficulty \in Difficulties, skills \in SkillLists :
           \E first \in CategorySamples(SampledCategories(skills), 1),
              second \in CategorySamples(SampledCategories(skills), 2),
              third \in CategorySamples(SampledCategories(skills), 3) :
              \E choices \in
                    [1..Max(0, 8 - Len(first) - Len(second) - Len(third)) ->
                       1..(Len(question_bank.technical.algorithms)
                           + Len(question_bank.technical.databases))] :
                 GenerateTechnicalQuestions(
                   difficulty, skills,
                   SubSeq(<<first, second, third>>, 1,
                          Len(SampledCategories(skills))),
                   choices)

SpecQuestionSets == Init /\ [][NextQuestionSets]_vars

\* ----------------------------------------------- the two report paths
PathQuestions == 2
PathSubmits == 2

\* One interview whose answers reach both the agent's session
\* (process_answer) and the Response rows (submit_text_response).
NextPaths ==
  \/ \E u \in Users :
        next_id <= AgentInterviews /\ CreateInterview(u, DefaultDifficulty)
  \/ StartQuestionGeneration
  \/ StartFinish(PathQuestions, TRUE, TRUE)
  \/ \E i \in 1..AgentInterviews, q \in 1..PathQuestions, ev \in EvalInputs :
        TotalSubmits < PathSubmits /\ ProcessAnswer(i, q, ev, TRUE)
  \/ \E u \in Users, i \in 1..AgentInterviews, q \in 1..PathQuestions,
        ev \in EvalInputs :
        SubmitText(u, i, q, ev, TRUE)

SpecPaths == Init /\ [][NextPaths]_vars

\* The Response rows hold the per-question scores of the session: one row
\* for each answered question, with the scores of its evaluation, and no
\* other row.
SameScores(ctx, rows) ==
  /\ \A i \in 1..Len(rows) :
        /\ rows[i].question \in 1..Len(ctx.questions)
        /\ ctx.questions[rows[i].question].answer_received
        /\ ctx.questions[rows[i].question].evaluation_result
             = [content_score |-> rows[i].content_score,
                relevance_score |-> rows[i].relevance_score]
        /\ \A j \in 1..Len(rows) :
              rows[j].question = rows[i].question => j = i
  /\ \A q \in 1..Len(ctx.questions) :
        ctx.questions[q].answer_received
        => \E i \in 1..Len(rows) : rows[i].question = q

\* ------------------------------------------------------ sessions side by side
\* Two interview sessions of two users under the one agent and two proctoring
\* sessions under the one monitor, alive at the same time.  The interviews
\* are answered, looked up and completed next to proctoring sessions that have
\* been started; the proctoring sessions are then fed frames and tab events
\* and ended next to the interview sessions as they were left.
IsolationInterviews == 2
IsolationSubmits == 1
IsolationFrames == 1
IsolationViolations == 1

\* A proctoring session has been fed or ended.
ProctoringBegun ==
  proctor_ret.op \notin {"", "start_proctoring_session"}

\* Two interview sessions are registered, the answers are in and no handler
\* is running.
InterviewsWaiting ==
  /\ pc.op = "idle"
  /\ Cardinality(DOMAIN active_interviews) = 2
  /\ TotalSubmits = IsolationSubmits

NextIsolation ==
  \/ \E u \in Users :
        /\ ~ProctoringBegun
        /\ next_id <= IsolationInterviews
        /\ CreateInterview(u, DefaultDifficulty)
  \/ ~ProctoringBegun /\ StartSteps
  \/ \E i \in InterviewIds, q \in 0..(NumQuestions + 1),
        ev \in MediaEvalInputs, evalOk \in BOOLEAN :
        /\ ~ProctoringBegun
        /\ TotalSubmits < IsolationSubmits
        /\ ProcessAnswer(i, q, ev, evalOk)
  \/ \E i \in InterviewIds : ~ProctoringBegun /\ GetStatus(i)
  \/ \E u \in Users, i \in InterviewIds :
        ~ProctoringBegun /\ CompleteBegin(u, i)
  \/ ~ProctoringBegun /\ CompleteSteps
  \/ \E session_id \in LifecycleSessionIds, sensitivity \in Sensitivities :
        pc.op = "idle" /\ StartProctoringSession(session_id, 1, 1, sensitivity)
  \/ \E session_id \in LifecycleSessionIds, frame \in CoherentFrames :
        /\ InterviewsWaiting
        /\ Known(session_id)
        /\ sessions[session_id].frame_count < IsolationFrames
        /\ Len(sessions[session_id].violations) < IsolationViolations
        /\ AnalyzeFrame(session_id, frame, FALSE)
  \/ \E session_id \in LifecycleSessionIds, event_type \in EventTypes :
        /\ InterviewsWaiting
        /\ Known(session_id)
        /\ Len(sessions[session_id].violations) < IsolationViolations
        /\ ProcessTabSwitch(session_id, event_type)
  \/ \E session_id \in LifecycleSessionIds :
        InterviewsWaiting /\ Known(session_id) /\ EndSession(session_id)

SpecIsolation == Init /\ [][NextIsolation]_vars

\* ------------------------------------------------------ everything scored
\* The three sources of scores, one at a time (they share no state): an
\* answer is evaluated, or a session is answered and completed through the
\* agent, or a proctoring session is reported.
InitBounds ==
  \/ Init
  \/ InitReport

NextBounds ==
  \/ /\ sessions = <<>>
     /\ evaluation = NoEvaluation
     /\ NextScores
  \/ /\ sessions = <<>>
     /\ AgentIdle
     /\ NextEvaluator
  \/ \E session_id \in ProctorSessionIds :
        Known(session_id) /\ GetSessionReport(session_id)

SpecBounds == InitBounds /\ [][NextBounds]_vars

\* ================================================================ properties
\* C1 (as claimed): at-most-once evaluation.  A process_answer call for a
\* question that already has its answer returns AlreadyAnswered and leaves the
\* session (the stored evaluation, the cumulative score lists and
\* current_question_index) as it was.
C1_AtMostOnceEvaluation ==
  [][\A i \in InterviewIds, q \in 0..(NumQuestions + 1), ev \in EvalInputs :
       LET context == get_context(i)
           k == FindQuestion(context, q)
       IN (/\ ProcessAnswer(i, q, ev, TRUE)
           /\ context # NoContext
           /\ k # 0
           /\ context.questions[k].answer_received)
          => (/\ ret'.code = "AlreadyAnswered"
              /\ active_interviews' = active_interviews)]_vars

\* C2: monotone phases.  In no step of start, submit or complete does the
\* current_phase of a registered session move to an earlier phase of the
\* AgentPhase order.  (A session is started once: create_interview, the only
\* caller of start_interview, passes the new row's primary key.)
C2_MonotonePhases ==
  [][\A u \in (DOMAIN active_interviews) \cap (DOMAIN active_interviews') :
       active_interviews'[u].interview_id = active_interviews[u].interview_id
       => PhaseRank(active_interviews'[u].current_phase)
            >= PhaseRank(active_interviews[u].current_phase)]_vars

\* C2 witness: a session with answers has been driven to the last phase.
C2_Witness ==
  \E u \in DOMAIN active_interviews :
    /\ active_interviews[u].current_phase = "completed"
    /\ AnsweredCount(active_interviews[u]) > 0

\* C3 (as claimed): cancellation safety.  Once an interview is cancelled, no
\* registry lookup finds it, and every later submit or complete for it is
\* refused and changes neither its row (it never becomes completed) nor its
\* responses.
C3_CancellationSafety ==
  /\ [](\A i \in InterviewIds :
          db_interviews[i].status = "cancelled" => get_context(i) = NoContext)
  /\ [][\A i \in InterviewIds :
          db_interviews[i].status = "cancelled"
          => /\ db_interviews'[i] = db_interviews[i]
             /\ db_responses'[i] = db_responses[i]
             /\ (ret' # ret /\ ret'.iid = i
                   /\ ret'.op \in {"submit_text", "submit_audio", "submit_video",
                                   "complete"})
                => ret'.code \notin {"200", "201"}]_vars

\* The aggregate content score, in hundredths, of a list of Response rows:
\* 0.6 * mean content + 0.4 * mean relevance.
ContentAggregate(rows) ==
  RoundDiv(60 * SeqSum(Column(rows, "content_score"))
             + 40 * SeqSum(Column(rows, "relevance_score")), Len(rows))

\* C4 (as claimed): answers reach the report.  When an interview with k >= 1
\* submitted answers is completed, the report's questions_answered is k and
\* the report's and the row's content score is the aggregate of those k
\* answers.
C4_AnswersReachReport ==
  [][\A i \in InterviewIds :
       (/\ db_interviews[i].status = "in_progress"
        /\ db_interviews'[i].status = "completed"
        /\ Len(db_responses[i]) >= 1)
       => /\ ret'.op = "complete" /\ ret'.iid = i
          /\ ret'.via = "agent" => ret'.questions_answered = Len(db_responses[i])
          /\ ret'.content_score = ContentAggregate(db_responses[i])
          /\ db_interviews'[i].content_score = ContentAggregate(db_responses[i])]_vars

\* C5 (as claimed): both cumulative score lists are as long as the number of
\* answered questions, in every registered session.
C5_ScoreListLengths ==
  \A u \in DOMAIN active_interviews :
    /\ Len(active_interviews[u].cumulative_content_scores)
         = AnsweredCount(active_interviews[u])
    /\ Len(active_interviews[u].cumulative_relevance_scores)
         = AnsweredCount(active_interviews[u])

\* C6 (as claimed): current_question_index never exceeds the number of
\* questions, in every registered session.
C6_IndexWithinQuestions ==
  \A u \in DOMAIN active_interviews :
    active_interviews[u].current_question_index
      <= Len(active_interviews[u].questions)

\* C7 (as claimed): sessions are addressed by interview id.  Every interview
\* that was started and is neither completed nor cancelled is found in the
\* registry by its interview_id.
C7_AddressedByInterviewId ==
  \A i \in InterviewIds :
    (i < next_id /\ db_interviews[i].status = "in_progress")
    => get_context(i) # NoContext

\* The phase each phase of complete_interview follows.
CompletePredecessor(phase) ==
  CASE phase = "suggestion_generation" -> "analysis"
    [] phase = "report_generation" -> "suggestion_generation"
    [] phase = "completed" -> "report_generation"
    [] OTHER -> "none"

\* C8: complete on a registered session assigns analysis, then
\* suggestion_generation, then report_generation, then completed, returns the
\* report and removes the session from the registry; from then on a status
\* lookup returns None and a second complete fails.
C8_CompleteDrivesPhases ==
  [][/\ \A u \in Users, i \in InterviewIds :
          (CompleteBegin(u, i) /\ pc'.op = "complete")
          => get_context(i)'.current_phase = "analysis"
     /\ pc.op = "complete"
        => LET phase == get_context(pc.iid).current_phase
           IN IF pc'.op = "complete"
              THEN /\ get_context(pc.iid)' # NoContext
                   /\ CompletePredecessor(get_context(pc.iid)'.current_phase) = phase
              ELSE /\ phase = "completed"
                   /\ ret'.op = "complete" /\ ret'.iid = pc.iid
                   /\ ret'.code = "200" /\ ret'.phase = "completed"
                   /\ ret'.questions_answered >= 0 /\ ret'.overall_score >= 0
                   /\ get_context(pc.iid)' = NoContext
                   /\ db_interviews'[pc.iid].status = "completed"
     /\ \A i \in InterviewIds :
          db_interviews[i].status = "completed"
          => /\ get_context(i)' = NoContext
             /\ GetStatus(i) => ret'.code = "None"
             /\ \A u \in Users : CompleteBegin(u, i) => ret'.code \in {"400", "404"}]_vars

\* C8 witness: a complete through the agent has returned its report for a
\* session that had an answer, and the session is no longer registered.
C8_Witness ==
  /\ ret.op = "complete" /\ ret.via = "agent" /\ ret.code = "200"
  /\ ret.questions_answered >= 1
  /\ get_context(ret.iid) = NoContext

\* C9 (as claimed): a submit for a completed interview is rejected on the
\* text, audio and video paths: no Response is recorded and the row
\* (answered_questions, scores) stays as it is.
C9_SubmitAfterCompleteRejected ==
  [][\A i \in InterviewIds :
       db_interviews[i].status = "completed"
       => /\ db_responses'[i] = db_responses[i]
          /\ db_interviews'[i] = db_interviews[i]
          /\ (ret' # ret /\ ret'.iid = i
                /\ ret'.op \in {"submit_text", "submit_audio", "submit_video"})
             => ret'.code \notin {"200", "201"}]_vars

\* C10: adaptive difficulty.  With the flag enabled, should_adjust_difficulty
\* returns (true, "hard") when at least 3 questions are answered, the mean of
\* the content scores is >= 85 and the difficulty is not hard; (true, "easy")
\* when at least 3 are answered, the mean is <= 45 and the difficulty is not
\* easy; and (false, _) when fewer than 3 are answered.
C10_AdaptiveDifficulty ==
  [][\A i \in InterviewIds :
       (ShouldAdjust(i) /\ enable_adaptive_difficulty)
       => LET context == get_context(i)
              answered == AnsweredCount(context)
              total == SeqSum(context.cumulative_content_scores)
              n == Len(context.cumulative_content_scores)
          IN /\ (answered >= 3 /\ total >= 85 * n
                   /\ context.difficulty_level # "hard")
                => (ret'.code = "true" /\ ret'.adjust = "hard")
             /\ (answered >= 3 /\ total <= 45 * n
                   /\ context.difficulty_level # "easy")
                => (ret'.code = "true" /\ ret'.adjust = "easy")
             /\ answered < 3 => ret'.code = "false"]_vars

\* C10 witness: with three questions answered at a mean of exactly 85 the call
\* returned (true, "hard").
C10_Witness ==
  /\ ret.op = "should_adjust" /\ ret.code = "true" /\ ret.adjust = "hard"
  /\ LET context == get_context(ret.iid)
     IN /\ AnsweredCount(context) = 3
        /\ SeqSum(context.cumulative_content_scores)
             = 85 * Len(context.cumulative_content_scores)

\* A step that analysed a frame of session_id.
FrameAnalysed(session_id) ==
  /\ session_id \in DOMAIN sessions
  /\ session_id \in DOMAIN sessions'
  /\ proctor_ret'.op = "analyze_frame"
  /\ proctor_ret'.session_id = session_id
  /\ proctor_ret'.code = "200"
  /\ sessions'[session_id].frame_count = sessions[session_id].frame_count + 1

\* The violations of the given type the step appended to session_id.
Appended(session_id, type) ==
  {i \in (Len(sessions[session_id].violations) + 1)
           ..Len(sessions'[session_id].violations) :
     sessions'[session_id].violations[i].type = type}

\* C11: every analysed frame appends a no_face violation of severity medium
\* if and only if, the frame counted, frame_count - face_visible_frames is
\* above the session's no_face_threshold.
C11_NoFaceIffThreshold ==
  [][\A session_id \in ProctorSessionIds :
       FrameAnalysed(session_id) =>
         LET after == sessions'[session_id]
         IN /\ (Appended(session_id, "no_face") # {})
                 <=> (after.frame_count - after.face_visible_frames
                        > after.no_face_threshold)
            /\ \A i \in Appended(session_id, "no_face") :
                 after.violations[i].severity = "medium"]_vars

\* C12: every analysed frame appends a looking_away violation of severity low
\* if and only if the frames in a row on which the user looked away, ending
\* at this frame, are more than the session's looking_away_threshold; a frame
\* on which the user does not look away appends none.
C12_LookingAwayIffConsecutive ==
  [][\A session_id \in ProctorSessionIds :
       FrameAnalysed(session_id) =>
         LET after == sessions'[session_id]
         IN /\ (Appended(session_id, "looking_away") # {})
                 <=> (away_run'[session_id] > after.looking_away_threshold)
            /\ \A i \in Appended(session_id, "looking_away") :
                 after.violations[i].severity = "low"
            /\ away_run'[session_id] = 0
                 => Appended(session_id, "looking_away") = {}]_vars

\* C13: a frame on which the detection returns more than one face appends
\* exactly one multiple_faces violation (severity high, confidence 0.95, frame
\* index the frame's number) and counts as face-visible; any other frame
\* appends none; no frame touches the violations recorded before it; and a
\* session all of whose frames showed a face reports visibility ratio 100.
C13_OneMultipleFacesPerFrame ==
  /\ [][\A session_id \in ProctorSessionIds, frame \in Frames,
           check_person \in BOOLEAN :
          (session_id \in DOMAIN sessions
             /\ AnalyzeFrame(session_id, frame, check_person)) =>
            LET before == sessions[session_id]
                after == sessions'[session_id]
                multiple == Appended(session_id, "multiple_faces")
            IN /\ Cardinality(multiple) = IF frame.faces > 1 THEN 1 ELSE 0
               /\ \A i \in multiple :
                    after.violations[i] =
                      Violation("multiple_faces", "high", 95,
                                before.frame_count + 1)
               /\ frame.faces > 1 =>
                    after.face_visible_frames = before.face_visible_frames + 1
               /\ SubSeq(after.violations, 1, Len(before.violations))
                    = before.violations]_vars
  /\ [](\A session_id \in DOMAIN sessions :
          LET session == sessions[session_id]
          IN (session.frame_count > 0
                /\ session.face_visible_frames = session.frame_count)
               => Round2(get_face_visibility_ratio(session)) = 10000)

\* Several frames, all with a face, the last one with two.
C13_Witness ==
  /\ "s1" \in DOMAIN sessions
  /\ sessions["s1"].frame_count > 14
  /\ sessions["s1"].face_visible_frames = sessions["s1"].frame_count
  /\ proctor_ret.op = "analyze_frame"
  /\ Len(sessions["s1"].violations) = 1
  /\ proctor_ret.violations =
       <<Violation("multiple_faces", "high", 95, sessions["s1"].frame_count)>>

\* The report the last call returned for session_id.
Reported(session_id) ==
  /\ session_id \in DOMAIN sessions
  /\ proctor_ret.op = "get_session_report"
  /\ proctor_ret.session_id = session_id
  /\ proctor_ret.code = "200"

SeverityCount(violations, severity) ==
  Cardinality({i \in 1..Len(violations) : violations[i].severity = severity})

\* clamp(100 - max(0, 95 - v) * 0.5 - max(0, 90 - a) * 0.3 - sum, 0, 100) in
\* tenths of 1/frame_count, with v = 100 * face_visible / frame_count and
\* a = max(0, 100 * (face_visible - looking_away) / frame_count), both 0 for a
\* session without frames.
IntegrityFormula(session) ==
  LET n == IF session.frame_count = 0 THEN 1 ELSE session.frame_count
      v == IF session.frame_count = 0 THEN 0
           ELSE 100 * session.face_visible_frames
      a == IF session.frame_count = 0 THEN 0
           ELSE Max(0, 100 * (session.face_visible_frames
                                - session.looking_away_frames))
      sum == 20 * SeverityCount(session.violations, "critical")
             + 10 * SeverityCount(session.violations, "high")
             + 5 * SeverityCount(session.violations, "medium")
             + 2 * SeverityCount(session.violations, "low")
      raw == 1000 * n - 5 * Max(0, 95 * n - v) - 3 * Max(0, 90 * n - a)
             - 10 * n * sum
  IN [num |-> Max(0, Min(1000 * n, raw)), den |-> 10 * n]

\* C14: for every session state the integrity score is
\* clamp(100 - max(0, 95 - v) * 0.5 - max(0, 90 - a) * 0.3
\*       - (20 per critical, 10 per high, 5 per medium, 2 per low), 0, 100),
\* and the report shows it rounded to two decimals.
C14_IntegrityDeductions ==
  \A session_id \in DOMAIN sessions :
    LET session == sessions[session_id]
        score == calculate_integrity_score(session)
        formula == IntegrityFormula(session)
    IN /\ score.num * formula.den = formula.num * score.den
       /\ Reported(session_id) =>
            proctor_ret.report.integrity_score = Round2(formula)

\* A reported session that loses points on visibility, on attention and on
\* violations, and is not clamped.
C14_Witness ==
  /\ Reported("s1")
  /\ sessions["s1"].frame_count = 4
  /\ sessions["s1"].face_visible_frames = 3
  /\ sessions["s1"].looking_away_frames = 1
  /\ SeverityCount(sessions["s1"].violations, "high") = 1
  /\ SeverityCount(sessions["s1"].violations, "low") = 1
  /\ Len(sessions["s1"].violations) = 2
  /\ proctor_ret.report.integrity_score = 6600

\* The verdict a recommendation text opens with.
RecommendationLabel(recommendation) ==
  IF recommendation = "REVIEW REQUIRED: Critical violations detected. Manual review recommended."
    THEN "review required"
  ELSE IF recommendation = "PASSED: No significant integrity concerns."
    THEN "passed"
  ELSE IF recommendation = "PASSED WITH NOTES: Minor issues detected. Review if needed."
    THEN "passed with notes"
  ELSE IF recommendation = "FLAGGED: Multiple issues detected. Manual review recommended."
    THEN "flagged"
  ELSE IF recommendation = "FAILED: Significant integrity concerns. Investigation required."
    THEN "failed"
  ELSE "none"

\* C15: the recommendation is "review required" if any violation is critical;
\* otherwise "passed" from a score of 90, "passed with notes" from 70,
\* "flagged" from 50 and "failed" below; the report carries it.
C15_RecommendationMapping ==
  \A session_id \in DOMAIN sessions :
    LET session == sessions[session_id]
        score == calculate_integrity_score(session)
        recommendation == get_recommendation(score, session.violations)
    IN /\ RecommendationLabel(recommendation) =
            IF SeverityCount(session.violations, "critical") > 0
              THEN "review required"
            ELSE IF score.num >= 90 * score.den THEN "passed"
            ELSE IF score.num >= 70 * score.den THEN "passed with notes"
            ELSE IF score.num >= 50 * score.den THEN "flagged"
            ELSE "failed"
       /\ Reported(session_id) =>
            proctor_ret.report.recommendation = recommendation

\* A report with a critical violation on a session that would otherwise have
\* passed with notes.
C15_Witness ==
  /\ Reported("s1")
  /\ sessions["s1"].frame_count = 4
  /\ sessions["s1"].face_visible_frames = 4
  /\ sessions["s1"].looking_away_frames = 0
  /\ Len(sessions["s1"].violations) = 1
  /\ sessions["s1"].violations[1].severity = "critical"
  /\ proctor_ret.report.integrity_score = 8000
  /\ RecommendationLabel(proctor_ret.report.recommendation)
       = "review required"

\* Scenario S6 as the claim states it: 100 frames, 95 face-visible, 10 looking
\* away, one critical and two medium violations.
IsScenarioS6(session) ==
  /\ session.frame_count = 100
  /\ session.face_visible_frames = 95
  /\ session.looking_away_frames = 10
  /\ Len(session.violations) = 3
  /\ SeverityCount(session.violations, "critical") = 1
  /\ SeverityCount(session.violations, "medium") = 2

\* C16 as stated: the report of scenario S6 shows attention ratio 85,
\* integrity score 68.5 and the recommendation "flagged".
C16_ScenarioS6Flagged ==
  \A session_id \in DOMAIN sessions :
    (Reported(session_id) /\ IsScenarioS6(sessions[session_id])) =>
      /\ proctor_ret.report.attention_ratio = 8500
      /\ proctor_ret.report.integrity_score = 6850
      /\ RecommendationLabel(proctor_ret.report.recommendation) = "flagged"

\* C16, amended: the report of scenario S6 shows attention ratio 85,
\* integrity score 68.5 and, because one violation is critical, the
\* recommendation "review required".
C16_ScenarioS6ReviewRequired ==
  \A session_id \in DOMAIN sessions :
    (Reported(session_id) /\ IsScenarioS6(sessions[session_id])) =>
      /\ proctor_ret.report.attention_ratio = 8500
      /\ proctor_ret.report.integrity_score = 6850
      /\ RecommendationLabel(proctor_ret.report.recommendation)
           = "review required"

C16_Witness ==
  /\ Reported("s1")
  /\ IsScenarioS6(sessions["s1"])
  /\ proctor_ret.report.critical_violations = 1
  /\ proctor_ret.report.duration_frames = 100

\* C17: a tab event on an existing session appends exactly one violation,
\* tab_switch for the kind switch and window_blur for the kind blur, of
\* severity medium and confidence 1.0, and leaves the three counters and the
\* earlier violations as they were; a kind other than switch and blur is
\* recorded as neither.
C17_TabSwitchRecorded ==
  [][\A session_id \in LifecycleSessionIds, event_type \in EventTypes :
       (Known(session_id) /\ ProcessTabSwitch(session_id, event_type)) =>
         LET before == sessions[session_id]
             after == sessions'[session_id]
             last == after.violations[Len(after.violations)]
         IN /\ after.frame_count = before.frame_count
            /\ after.face_visible_frames = before.face_visible_frames
            /\ after.looking_away_frames = before.looking_away_frames
            /\ SubSeq(after.violations, 1, Len(before.violations))
                 = before.violations
            /\ event_type = "switch" =>
                 /\ Len(after.violations) = Len(before.violations) + 1
                 /\ last.type = "tab_switch"
                 /\ last.severity = "medium" /\ last.confidence = 100
            /\ event_type = "blur" =>
                 /\ Len(after.violations) = Len(before.violations) + 1
                 /\ last.type = "window_blur"
                 /\ last.severity = "medium" /\ last.confidence = 100
            /\ event_type \notin {"switch", "blur"} =>
                 /\ Appended(session_id, "tab_switch") = {}
                 /\ Appended(session_id, "window_blur") = {}]_vars

SessionCalls ==
  {"analyze_frame", "process_tab_switch", "get_session_report", "end_session"}

\* C18: ending an existing session returns the report of its final counters
\* and violations and removes it, leaving every other session as it was; a
\* frame, tab event, report or end for an id without a session, ended or
\* never started, fails with not-found and changes no session.
C18_EndRemovesSession ==
  [][\A session_id \in LifecycleSessionIds :
       /\ (/\ Known(session_id)
           /\ proctor_ret'.op = "end_session"
           /\ proctor_ret'.session_id = session_id) =>
            /\ proctor_ret'.code = "200"
            /\ proctor_ret'.report = get_session_report(session_id)
            /\ proctor_ret'.report.duration_frames
                 = sessions[session_id].frame_count
            /\ proctor_ret'.report.violations
                 = sessions[session_id].violations
            /\ DOMAIN sessions' = DOMAIN sessions \ {session_id}
            /\ \A other \in DOMAIN sessions' :
                 sessions'[other] = sessions[other]
       /\ (/\ ~Known(session_id)
           /\ proctor_ret'.op \in SessionCalls
           /\ proctor_ret'.session_id = session_id) =>
            /\ proctor_ret'.code = "404"
            /\ sessions' = sessions]_vars

\* Session s1 was ended after a frame and a violation, its report returned,
\* while s2 goes on.
C18_Witness ==
  /\ proctor_ret.op = "end_session"
  /\ proctor_ret.session_id = "s1"
  /\ proctor_ret.code = "200"
  /\ proctor_ret.report.duration_frames = 1
  /\ proctor_ret.report.total_violations = 1
  /\ ~Known("s1")
  /\ Known("s2")
  /\ sessions["s2"].frame_count = 1

\* The sensitivity table: no-face and looking-away frames for each profile.
ProfileThresholds(sensitivity) ==
  IF sensitivity = "low" THEN <<60, 45>>
  ELSE IF sensitivity = "medium" THEN <<30, 20>>
  ELSE <<15, 10>>

\* C19: a session started with a sensitivity profile has that profile's
\* no-face and looking-away thresholds (60/30/15 and 45/20/10 for low, medium
\* and high), also when it is started through the endpoint with a requested
\* sensitivity, and keeps them on every frame.
C19_SessionUsesProfile ==
  [][\A session_id \in LifecycleSessionIds :
       /\ \A sensitivity \in Sensitivities :
            LET session == ProctorSession(1, 1, FALSE,
                                          AntiCheatMonitor(sensitivity))
            IN /\ session.no_face_threshold
                    = ProfileThresholds(sensitivity)[1]
               /\ session.looking_away_threshold
                    = ProfileThresholds(sensitivity)[2]
       /\ \A sensitivity \in Sensitivities :
            StartProctoringSession(session_id, 1, 1, sensitivity) =>
              /\ sessions'[session_id].no_face_threshold
                   = ProfileThresholds(sensitivity)[1]
              /\ sessions'[session_id].looking_away_threshold
                   = ProfileThresholds(sensitivity)[2]
       /\ FrameAnalysed(session_id) =>
            /\ sessions'[session_id].no_face_threshold
                 = sessions[session_id].no_face_threshold
            /\ sessions'[session_id].looking_away_threshold
                 = sessions[session_id].looking_away_threshold]_vars

\* Two requests that were in flight together: neither was answered before
\* the other arrived.
Overlapping(r1, r2) ==
  /\ r1 # r2
  /\ r1.session_id = r2.session_id
  /\ r1.code = "200" /\ r2.code = "200"
  /\ r1.seen < r2.frame_number
  /\ r2.seen < r1.frame_number

\* C20: two analyze_frame calls for one session that overlap get distinct
\* consecutive frame numbers and leave frame_count increased by exactly 2;
\* each is applied to the session as the other left it, as a call running on
\* its own would be, so the outcome is that of the two calls one after the
\* other in the order they were served.
C20_FramesSerialized ==
  /\ [](\A r1 \in in_flight, r2 \in in_flight :
          (Overlapping(r1, r2) /\ r1.seen <= r2.seen) =>
            /\ r1.frame_number # r2.frame_number
            /\ {r1.frame_number, r2.frame_number}
                 = {r2.seen + 1, r2.seen + 2}
            /\ Known(r1.session_id) =>
                 sessions[r1.session_id].frame_count = r2.seen + 2)
  /\ [][\A request \in in_flight :
          (Known(request.session_id) /\ ServeFrame(request)) =>
            LET before == sessions[request.session_id]
                after == sessions'[request.session_id]
                counted == [before EXCEPT !.frame_count = @ + 1]
            IN /\ after.frame_count = before.frame_count + 1
               /\ proctor_ret'.frame_number = after.frame_count
               /\ after = PersonVerification(
                            GazeAnalysis(FaceDetection(counted,
                                                       request.frame),
                                         request.frame),
                            request.frame, request.check_person)]_vars

\* Two requests arrived at the same frame_count, both were served, and the
\* second one served carries a violation.
C20_Witness ==
  \E r1 \in in_flight, r2 \in in_flight :
    /\ Overlapping(r1, r2)
    /\ r1.seen = 1 /\ r2.seen = 1
    /\ r1.frame_number = 2 /\ r2.frame_number = 3
    /\ sessions[r1.session_id].frame_count = 3
    /\ Len(sessions[r1.session_id].violations) = 1
    /\ sessions[r1.session_id].violations[1].frame_number = 3

\* C21 (as claimed): submits of one session are serialised.  When a
\* process_answer call runs while another call for the same session is in
\* flight, the session afterwards is what a one-at-a-time execution gives:
\* a question that already has its answer is not counted again (the stored
\* evaluation, both cumulative score lists and current_question_index stay),
\* and a question without an answer gets exactly this one.
C21_SubmitsSerialized ==
  [][\A request \in in_flight :
       LET context == get_context(request.interview_id)
           k == FindQuestion(context, request.question_id)
       IN (/\ ServeAnswer(request)
           /\ \E other \in in_flight :
                 /\ other # request
                 /\ other.interview_id = request.interview_id
           /\ context # NoContext
           /\ k # 0)
          => active_interviews' =
               IF context.questions[k].answer_received
               THEN active_interviews
               ELSE StoreContext(active_interviews,
                                 RecordAnswer(context, k, request.ev))]_vars

\* C22 (as claimed): a submit that was in flight when its interview was
\* completed or cancelled commits nothing and is refused.  When a submit
\* received while the interview was in progress is handled after the
\* interview became completed or cancelled, no Response row is added, the
\* interview's row (answered_questions, scores, status) and the registry stay
\* as they are, and the response is a refusal.
C22_ClosedWhileInFlight ==
  [][\A request \in in_flight :
       (/\ ServeSubmit(request)
        /\ request.seen = "in_progress"
        /\ db_interviews[request.interview_id].status
             \in {"completed", "cancelled"})
       => /\ db_responses' = db_responses
          /\ db_interviews' = db_interviews
          /\ active_interviews' = active_interviews
          /\ ret'.code \notin {"200", "201"}]_vars

\* The mean of a channel's recorded scores as an exact fraction; a channel
\* with no recorded scores counts as 70.
ChannelMean(scores) ==
  IF Len(scores) = 0 THEN [num |-> 70, den |-> 1]
  ELSE [num |-> SeqSum(scores), den |-> Len(scores)]

\* The overall score law, in hundredths and as an exact fraction:
\* 0.4*(0.6*avg_content + 0.4*avg_relevance) + 0.3*((avg_clarity +
\* avg_fluency)/2) + 0.3*avg_confidence.
OverallLaw(ctx, evaluations) ==
  LET n == Len(evaluations)
      cl == ChannelMean(ctx.cumulative_clarity_scores)
      fl == ChannelMean(ctx.cumulative_fluency_scores)
      cf == ChannelMean(ctx.cumulative_confidence_scores)
  IN [num |-> (24 * EvalContentSum(evaluations)
                 + 16 * EvalRelevanceSum(evaluations)) * cl.den * fl.den * cf.den
              + 15 * n * (cl.num * fl.den + fl.num * cl.den) * cf.den
              + 30 * n * cf.num * cl.den * fl.den,
      den |-> n * cl.den * fl.den * cf.den]

\* C23: the overall score law.  For every non-empty list of per-question
\* evaluations, the overall score the agent computes for its final report is
\* within 0.01 of the law, with 70 for a channel without recorded scores, and
\* it is the overall score the report returns.
C23_OverallScoreLaw ==
  [][/\ (/\ pc.op = "complete" /\ pc.step = "suggestion_generation"
          /\ pc'.step = "report_generation"
          /\ Len(pc.evaluations) > 0)
         => LET law == OverallLaw(get_context(pc.iid), pc.evaluations)
                d == pc'.scores.overall_score * law.den - law.num
            IN d <= law.den /\ -d <= law.den
     /\ (pc.op = "complete" /\ pc.step = "completed" /\ pc'.op = "idle")
         => ret'.overall_score = pc.scores.overall_score]_vars

\* C23 witness: a final report over three evaluations of different scores.
C23_Witness ==
  /\ ret.op = "complete" /\ ret.via = "agent" /\ ret.code = "200"
  /\ ret.questions_answered = 3
  /\ ret.overall_score = 6587

\* A score in hundredths that lies in [0, 100].
InRange(score) == 0 <= score /\ score <= 100 * 100

\* A ratio or score, as an exact fraction, that lies in [0, 100].
FractionInRange(x) == 0 <= x.num /\ x.num <= 100 * x.den

\* C24: score bounds.  Every emitted score lies in [0, 100]: the content,
\* relevance and coherence scores of an evaluated answer, the overall score
\* the agent computes and returns in its final report, and the proctor's
\* face-visibility ratio, attention ratio and integrity score, both as
\* computed and as reported.
C24_ScoreBounds ==
  /\ evaluation # NoEvaluation
       => /\ InRange(evaluation.result.content_score)
          /\ InRange(evaluation.result.relevance_score)
          /\ evaluation.result.coherence_score # -1
               => InRange(evaluation.result.coherence_score)
  /\ (pc.op = "complete" /\ pc.step \in {"report_generation", "completed"})
       => InRange(pc.scores.overall_score) /\ InRange(pc.scores.content_score)
  /\ (ret.op = "complete" /\ ret.code = "200")
       => InRange(ret.overall_score)
  /\ \A session_id \in DOMAIN sessions :
       /\ FractionInRange(get_face_visibility_ratio(sessions[session_id]))
       /\ FractionInRange(get_attention_ratio(sessions[session_id]))
       /\ FractionInRange(calculate_integrity_score(sessions[session_id]))
  /\ (proctor_ret.op = "get_session_report" /\ proctor_ret.code = "200")
       => /\ InRange(proctor_ret.report.face_visibility_ratio)
          /\ InRange(proctor_ret.report.attention_ratio)
          /\ InRange(proctor_ret.report.integrity_score)

\* C24 witness: the report of a session that never showed a face and has
\* three critical violations; its deductions exceed 100 and the integrity
\* score reported is 0.
C24_Witness ==
  /\ proctor_ret.op = "get_session_report" /\ proctor_ret.code = "200"
  /\ proctor_ret.report.duration_frames > 0
  /\ proctor_ret.report.face_visibility_ratio = 0
  /\ proctor_ret.report.critical_violations = 3
  /\ proctor_ret.report.integrity_score = 0

\* C25 (as claimed): degraded optional channels.  When the speech analyzer
\* or the emotion analyzer fails during an audio or video submit whose
\* question and interview are found and whose text evaluation succeeds, the
\* submit still succeeds (200) and records a Response with the text scores,
\* with 70 for the clarity and fluency the speech analyzer did not give and
\* 70 for the confidence the emotion analyzer did not give.
C25_DegradedChannels ==
  [][\A u \in Users, i \in InterviewIds, q \in 1..BackendQuestions,
        sp \in SpeechInputs, cf \in ConfidenceInputs, ev \in MediaEvalInputs :
       SubmitLookup(u, i, q) = ""
       => /\ SubmitAudio(u, i, q, sp, ev, FALSE, TRUE)
               => /\ ret'.code = "200"
                  /\ db_responses'[i] =
                       Append(db_responses[i], Response(q, ev, 70, 70, -1))
          /\ \A speechOk \in BOOLEAN, emotionOk \in BOOLEAN :
               (/\ ~(speechOk /\ emotionOk)
                /\ SubmitVideo(u, i, q, sp, cf, ev, speechOk, emotionOk, TRUE))
               => /\ ret'.code = "200"
                  /\ db_responses'[i] =
                       Append(db_responses[i],
                              Response(q, ev,
                                       IF speechOk THEN sp[1] ELSE 70,
                                       IF speechOk THEN sp[2] ELSE 70,
                                       IF emotionOk THEN cf ELSE 70))]_vars

\* C26 (as claimed): the text scorer's short-circuit.  For every answer that
\* is empty or has fewer than 10 words, evaluate_answer returns content score
\* 0 and relevance score 0 with the feedback that the answer is too short;
\* every answer of at least 10 words gets the scores of the normal buckets.
C26_ShortAnswerShortCircuit ==
  evaluation # NoEvaluation
  => LET a == evaluation.answer
         result == evaluation.result
     IN IF a.word_count < 10
        THEN /\ result.content_score = 0
             /\ result.relevance_score = 0
             /\ TooShort \in result.feedback
        ELSE /\ result.content_score = Round2(calculate_content_score(a))
             /\ result.relevance_score = Round2(calculate_relevance_score(a))
             /\ TooShort \notin result.feedback

\* A question matches a list of areas when its category or one of its
\* keywords contains one of them, whatever the case of the letters.
MatchesArea(q, areas) ==
  \E a \in 1..Len(areas) :
     LET area == lower(areas[a])
     IN \/ Contains(lower(q.category), area)
        \/ \E k \in 1..Len(q.keywords) : Contains(lower(q.keywords[k]), area)

\* output is input rearranged so that the questions matching the areas come
\* first and each of the two groups keeps the order it has in input.
StablePartition(input, output, areas) ==
  /\ Len(output) = Len(input)
  /\ \E pi \in [1..Len(input) -> 1..Len(input)] :
        /\ \A i, j \in 1..Len(input) : i # j => pi[i] # pi[j]
        /\ \A i \in 1..Len(input) : output[i] = input[pi[i]]
        /\ \A i, j \in 1..Len(input) :
              i < j => /\ MatchesArea(output[j], areas)
                            => MatchesArea(output[i], areas)
                       /\ (MatchesArea(output[i], areas)
                             <=> MatchesArea(output[j], areas))
                            => pi[i] < pi[j]

\* C27: focus-area prioritization is a stable partition.  For every question
\* list and every non-empty list of focus areas, the result of
\* _prioritize_focus_areas holds exactly the questions of the list, those
\* whose category or some keyword contains a focus area (case-insensitive)
\* before all the others, each group in the order of the list.
C27_StablePartition ==
  generated.op = "prioritize_focus_areas"
  => StablePartition(generated.questions, generated.result,
                     generated.focus_areas)

\* C27 witness: a list whose second and third questions match the focus area
\* "A", through a keyword in capitals and through a category, and are moved,
\* in their order, before the first, which does not match.
C27_Witness ==
  /\ generated.op = "prioritize_focus_areas"
  /\ generated.focus_areas = <<<<"A">>>>
  /\ Len(generated.questions) = 3
  /\ generated.questions[1].text = 3
  /\ generated.questions[2].text = 2
  /\ generated.questions[3].text = 1
  /\ generated.result[1].text = 2
  /\ generated.result[2].text = 1
  /\ generated.result[3].text = 3

\* C28 (as claimed): strong topics are avoided.  When the user's history
\* lists more than 3 strong topics, no question of the started session has a
\* category or keyword containing any of them; when it lists 3 or fewer, no
\* question is dropped.
C28_StrongTopicsAvoided ==
  generated.op = "generate_interview_questions"
  => IF Len(generated.strong_areas) > 3
     THEN \A i \in 1..Len(generated.result) :
             ~MatchesArea(generated.result[i], generated.strong_areas)
     ELSE Len(generated.result) = Len(generated.questions)

\* How many questions of a generated list come from the list of the given
\* level of the bank of the given type.
DrawsFrom(questions, interview_type, level) ==
  Cardinality({i \in 1..Len(questions) :
                 \E j \in 1..Len(initialize_question_bank[interview_type][level]) :
                    initialize_question_bank[interview_type][level][j].text
                      = questions[i].text})

\* The mix of the specification: easy, medium and hard draws.
StandardMix(difficulty) ==
  IF difficulty = "easy" THEN <<3, 2, 0>>
  ELSE IF difficulty = "medium" THEN <<1, 3, 1>>
  ELSE <<0, 2, 3>>

\* C29 (as claimed): the standard-mode difficulty mix.  For the general and
\* the hr type and each requested difficulty, generate draws from the easy,
\* medium and hard banks 3/2/0 questions for easy, 1/3/1 for medium and 0/2/3
\* for hard.
C29_DifficultyMix ==
  generated.op = "generate_questions"
  => \A l \in 1..3 :
        DrawsFrom(generated.result, generated.interview_type, Levels[l])
          = StandardMix(generated.difficulty)[l]

\* C30 (as claimed): the question bank is read-only.  After any generate
\* call every entry of the bank has the text, type and difficulty tag (or
\* absence of one) it had at initialization.
C30_BankReadOnly ==
  question_bank = initialize_question_bank

\* C32 (as claimed): whenever should_adjust_difficulty reports no adjustment
\* for a session with at least 3 answered questions, the difficulty it
\* returns is the session's current difficulty.
C32_NoAdjustmentKeepsCurrent ==
  [][\A i \in InterviewIds :
       (/\ ShouldAdjust(i)
        /\ get_context(i) # NoContext
        /\ AnsweredCount(get_context(i)) >= 3
        /\ ret'.code = "false")
       => ret'.adjust = get_context(i).difficulty_level]_vars

\* C38 (as claimed): process_answer with a question_order that is not in
\* 1..len(questions) fails with the question-not-found error and changes no
\* session state; a question_order k in 1..len(questions) selects the question
\* whose order_number is k.
C38_QuestionOrderRange ==
  [][\A i \in InterviewIds, q \in 0..(NumQuestions + 1), ev \in EvalInputs,
        evalOk \in BOOLEAN :
       (ProcessAnswer(i, q, ev, evalOk) /\ get_context(i) # NoContext)
       => LET context == get_context(i)
          IN IF q \in 1..Len(context.questions)
             THEN /\ FindQuestion(context, q) # 0
                  /\ context.questions[FindQuestion(context, q)].order_number = q
             ELSE /\ ret'.code = "ValueError:question"
                  /\ UNCHANGED active_interviews]_vars

\* C37 (as claimed): a failed start leaves nothing behind.  When
\* start_interview fails because question generation returned an error, no
\* session of that interview_id is registered afterwards and the sessions of
\* the other interviews are as they were.
C37_FailedStartLeavesNothing ==
  [][\A fallbackOk \in BOOLEAN :
       StartFinish(NumQuestions, FALSE, fallbackOk)
       => /\ \A u \in DOMAIN active_interviews' :
               active_interviews'[u].interview_id # pc.iid
          /\ \A u \in DOMAIN active_interviews :
               active_interviews[u].interview_id # pc.iid
               => /\ u \in DOMAIN active_interviews'
                  /\ active_interviews'[u] = active_interviews[u]]_vars

\* C39 (as claimed): the looking-away counter counts only consecutive frames.
\* After any analysed frame in which the user is not judged to be looking
\* away, a frame without face landmarks included, looking_away_frames of the
\* session is 0.
C39_LookingAwayConsecutive ==
  [][\A session_id \in ProctorSessionIds :
       (FrameAnalysed(session_id) /\ away_run'[session_id] = 0)
       => sessions'[session_id].looking_away_frames = 0]_vars

\* C35 (as claimed): the attention ratio reported for a proctor session is
\* (face_visible_frames - L) / frame_count * 100 clamped at 0, where L is the
\* number of frames of the session judged looking away so far: frames judged
\* looking away earlier still count after the user looks back at the screen.
C35_AttentionCountsAllAwayFrames ==
  \A session_id \in DOMAIN sessions :
     LET session == sessions[session_id]
     IN session.frame_count > 0
        => get_session_report(session_id).attention_ratio
             = Round2([num |-> Max(0, 100 * (session.face_visible_frames
                                             - away_total[session_id])),
                       den |-> session.frame_count])

\* C34 (as claimed): difficulty re-classification breaks ties toward the
\* stronger indicator.  A hard indicator or a text longer than 200 gives hard;
\* otherwise a text matching as many medium indicators as easy indicators, at
\* least one of each, is classified medium; a text matching no indicator
\* keeps its declared difficulty.
C34_TiesTowardStronger ==
  generated.op = "classify_difficulty"
  => LET q == generated.questions[1]
         classified == generated.result[1]
     IN IF q.hard_count > 0 \/ q.length > 200
          THEN classified.difficulty = "hard"
          ELSE /\ (q.medium_count = q.easy_count /\ q.easy_count >= 1)
                  => classified.difficulty = "medium"
               /\ (q.medium_count = 0 /\ q.easy_count = 0)
                  => classified.difficulty = q.difficulty

\* C40 (as claimed): no question appears twice in one generated question set.
\* The questions generate_questions returns are pairwise distinct, the
\* technical questions added by backfilling up to 8 included.
C40_NoDuplicateQuestions ==
  generated.op = "generate_questions"
  => \A i, j \in 1..Len(generated.result) :
        i # j => generated.result[i].text # generated.result[j].text

\* C36 (as claimed): the two report paths agree.  For the same per-question
\* scores the fallback ReportGenerator computes the same overall score as the
\* agent's final-score calculation, also when the interview has no clarity,
\* fluency or confidence scores.
C36_ReportPathsAgree ==
  \A i \in InterviewIds :
     LET context == get_context(i)
         rows == db_responses[i]
     IN (context # NoContext /\ Len(rows) > 0 /\ SameScores(context, rows))
        => generate_final_report(rows).overall_score
             = calculate_final_scores(context,
                                      CollectEvaluations(context)).overall_score

\* The phase assignments a session has gone through: two in start_interview
\* (one when question generation failed) and up to four in
\* complete_interview.
Transitions(ctx) ==
  LET started == IF Len(ctx.questions) > 0 THEN 2 ELSE 1
  IN CASE ctx.current_phase = "initialization" -> 0
       [] ctx.current_phase = "question_generation" -> 1
       [] ctx.current_phase = "answer_collection" -> 2
       [] ctx.current_phase = "analysis" -> started + 1
       [] ctx.current_phase = "suggestion_generation" -> started + 2
       [] ctx.current_phase = "report_generation" -> started + 3
       [] ctx.current_phase = "completed" -> started + 4

\* C33 (as claimed): every phase transition performed by start and complete
\* and every evaluation outcome committed by submit appends exactly one record
\* to the session's observation or decision log: a session's two logs hold as
\* many records as it has gone through transitions and committed evaluations,
\* the observation logged when the session is created counted either way.
C33_OneRecordPerEvent ==
  \A u \in DOMAIN active_interviews :
     LET ctx == active_interviews[u]
         events == Transitions(ctx) + Len(ctx.cumulative_content_scores)
     IN Len(ctx.agent_observations) + Len(ctx.agent_decisions)
          \in {events, events + 1}

\* A step is an operation addressed to interview session i: submit, status or
\* any step of complete.
AddressedInterview(i) ==
  \/ \E q \in 0..(NumQuestions + 1), ev \in MediaEvalInputs,
        evalOk \in BOOLEAN :
        ProcessAnswer(i, q, ev, evalOk)
  \/ GetStatus(i)
  \/ \E u \in Users : CompleteBegin(u, i)
  \/ pc.op = "complete" /\ pc.iid = i /\ CompleteSteps

\* A step is an operation addressed to proctoring session s: analyze_frame,
\* tab_switch or end.
AddressedProctoring(s) ==
  \/ \E frame \in CoherentFrames : AnalyzeFrame(s, frame, FALSE)
  \/ \E event_type \in EventTypes : ProcessTabSwitch(s, event_type)
  \/ EndSession(s)

\* C31: an operation addressed to one session leaves every other session as
\* it was: submit, status and complete on an interview session change no
\* other interview session's registry entry (scores, logs, questions, phase)
\* and no proctoring session; analyze_frame, tab_switch and end on a
\* proctoring session change no other proctoring session's entry (counters,
\* violation list) and no interview session.
C31_CrossSessionIsolation ==
  [][/\ \A i \in InterviewIds :
          AddressedInterview(i) =>
            /\ \A u \in DOMAIN active_interviews :
                  active_interviews[u].interview_id # i =>
                    /\ u \in DOMAIN active_interviews'
                    /\ active_interviews'[u] = active_interviews[u]
            /\ sessions' = sessions
     /\ \A s \in LifecycleSessionIds :
          AddressedProctoring(s) =>
            /\ \A other \in DOMAIN sessions \ {s} :
                  /\ other \in DOMAIN sessions'
                  /\ sessions'[other] = sessions[other]
            /\ active_interviews' = active_interviews]_vars

\* Two interview sessions and two proctoring sessions alive together, one of
\* each operated on (an answer committed, a frame analysed) and the other
\* still as it started.
C31_Witness ==
  /\ \E u, v \in DOMAIN active_interviews :
        /\ u # v
        /\ Len(active_interviews[u].cumulative_content_scores) = 1
        /\ Len(active_interviews[v].cumulative_content_scores) = 0
        /\ active_interviews[v].current_phase = "answer_collection"
  /\ \E s, other \in DOMAIN sessions :
        /\ s # other
        /\ sessions[s].frame_count = 1
        /\ sessions[other].frame_count = 0
====
